---------------------------- MODULE Spec2Model ----------------------------
(***************************************************************************)
(* Order synchronisation service (cdjay/douyin_getorder).                  *)
(*                                                                         *)
(* The model follows the Python sources:                                   *)
(*   main.py        DouyinOrderSync: run, run_once, smart_wait, stop       *)
(*   douyin_api.py  DouyinAPI: get_token, fetch_orders,                    *)
(*                  fetch_all_orders_by_day (a generator)                  *)
(*   database.py    DatabaseManager: save_orders, upsert_task_status,      *)
(*                  update_heartbeat, get_control_command                  *)
(*   task_manager.py TaskManager: should_stop, set_task_status             *)
(*                                                                         *)
(* Time is in whole seconds since the epoch.  Naive datetimes are taken in *)
(* a zone with a fixed offset of zero, so a calendar day is 86400 seconds. *)
(***************************************************************************)
EXTENDS Integers, Sequences, FiniteSets, TLC

VARIABLES
    \* ---- main.py: DouyinOrderSync
    pc,                 \* position of the single thread of control
    running,            \* self._running
    polled,             \* value of should_stop() at the top of the loop
    wait_left,          \* smart_wait: iterations of range(0, seconds, 1) left
    wait_kind,          \* which smart_wait call is running
    exc,                \* the exception run_once is handling / raising
    window,             \* run_once: (start_time, end_time) as datetimes
    orders_list,        \* run_once: list(orders), the batches yielded so far
    \* ---- douyin_api.py: DouyinAPI and the generator's frame
    access_token,       \* self._access_token
    token_expire_time,  \* self._token_expire_time
    current_day,        \* fetch_all_orders_by_day: current_day
    day_orders,         \* fetch_all_orders_by_day: day_orders
    cursor,             \* fetch_all_orders_by_day: cursor
    page_count,         \* fetch_all_orders_by_day: page_count
    \* ---- database.py: the two tables
    orders,             \* table orders: order_id -> row
    task,               \* table task_monitor: the row of config.task_id
    \* ---- environment
    cfg,                \* config.py: the values read from the environment
    now,                \* the wall clock, seconds
    \* ---- observations of calls (what a caller or a test sees)
    tcall,              \* the last get_token call
    ucall,              \* the last save_orders call
    fcall,              \* the last fetch_orders call made directly
    scall,              \* the last call on the task row made directly
    ncall,              \* the last _normalize_secret call
    signalled,          \* a shutdown signal has reached signal_handler
    cycle,              \* what happened in the current run_once
    stream              \* what the generator did for the current day slice

vars == << pc, running, polled, wait_left, wait_kind, exc, window, orders_list,
           access_token, token_expire_time, current_day, day_orders, cursor,
           page_count, orders, task, cfg, now, tcall, ucall, cycle, fcall,
           stream, scall, ncall, signalled >>

-----------------------------------------------------------------------------
(* Python values                                                           *)

\* None for a string-valued field (or a key that is absent from a dict)
None == "<None>"
\* None for an integer-valued field (or an absent key)
NoInt == 0 - 1

Truthy(s) == s # None /\ s # ""
TruthyInt(n) == n # NoInt /\ n # 0

RECURSIVE Flatten(_)
Flatten(ss) == IF ss = << >> THEN << >> ELSE Head(ss) \o Flatten(Tail(ss))

-----------------------------------------------------------------------------
(* datetime                                                                *)

DaySeconds == 86400

\* datetime.fromtimestamp(ts): calendar day and second of the day
FromTimestamp(ts) == [d |-> ts \div DaySeconds, s |-> ts % DaySeconds]
\* int(dt.timestamp())
Timestamp(dt) == dt.d * DaySeconds + dt.s
\* dt + timedelta(days = n)
PlusDays(dt, n) == [d |-> dt.d + n, s |-> dt.s]
\* dt + timedelta(seconds = n)
PlusSeconds(dt, n) == FromTimestamp(Timestamp(dt) + n)
\* dt1 < dt2, dt1 <= dt2, min(dt1, dt2)
DtLess(a, b) == a.d < b.d \/ (a.d = b.d /\ a.s < b.s)
DtLeq(a, b) == a = b \/ DtLess(a, b)
DtMin(a, b) == IF DtLeq(a, b) THEN a ELSE b
\* a datetime attribute that holds None
NoDate == [d |-> NoInt, s |-> NoInt]

-----------------------------------------------------------------------------
(* The wall clock                                                          *)

\* the instant at which the process starts (2024-01-01 00:00:00)
T0 == 1704067200

\* datetime.now() never runs backwards; it may jump to any later instant of S
ClockAdvance(S) ==
    /\ \E t \in S : t > now /\ now' = t
    /\ UNCHANGED << pc, running, polled, wait_left, wait_kind, exc, window,
                    orders_list, access_token, token_expire_time, current_day,
                    day_orders, cursor, page_count, orders, task, cfg, tcall,
                    ucall, cycle >>
    /\ UNCHANGED << fcall, stream, scall, ncall, signalled >>

-----------------------------------------------------------------------------
(* douyin_api.py: DouyinAPI.get_token                                      *)

\* timedelta(minutes=5), in seconds
TokenMargin == 300
\* data['data'].get('expires_in', 7200)
DefaultExpiresIn == 7200

\* What the OAuth endpoint may answer to the POST.
\*   http_ok      : requests.post returned and raise_for_status() passed
\*   code         : data.get('code', 0)
\*   has_data     : 'data' in data
\*   has_token    : 'access_token' in data['data']
\*   access_token : data['data']['access_token']
\*   expires_in   : data['data'].get('expires_in'), NoInt when absent
TokenResponse(http, code, data, tok, token, expires) ==
    [ http_ok |-> http, code |-> code, has_data |-> data, has_token |-> tok,
      access_token |-> token, expires_in |-> expires ]

TokenResponses ==
    { TokenResponse(TRUE, 0, TRUE, TRUE, tk, ex) :
          tk \in {"tokA", "tokB"}, ex \in {NoInt, DefaultExpiresIn, 600} }
    \cup { TokenResponse(FALSE, 0, FALSE, FALSE, None, NoInt),
           TokenResponse(TRUE, 40001, TRUE, TRUE, "tokA", DefaultExpiresIn),
           TokenResponse(TRUE, 0, FALSE, FALSE, None, NoInt),
           TokenResponse(TRUE, 0, TRUE, FALSE, None, NoInt),
           TokenResponse(TRUE, 0, TRUE, TRUE, "", DefaultExpiresIn) }

\* the checks of lines 94..104 all pass
TokenResponseOk(resp) ==
    /\ resp.http_ok
    /\ resp.code = 0
    /\ resp.has_data
    /\ resp.has_token

\* (variant of TokenFresh used to test C8: the 5 minute margin is dropped)
TokenFresh_NoMargin(tok, expire, t) ==
    /\ Truthy(tok)
    /\ expire # NoDate
    /\ DtLess(FromTimestamp(t), expire)
\* lines 73..75: the cached token may be returned
TokenFresh(tok, expire, t) ==
    /\ Truthy(tok)
    /\ expire # NoDate
    /\ DtLess(FromTimestamp(t), PlusSeconds(expire, 0 - TokenMargin))

\* (variant of GetToken used to test C9: the answer is cached before it is
\* validated)
GetToken_CacheOnFailure(tok, expire, t1, resp, t2) ==
    IF TokenFresh(tok, expire, t1)
    THEN [ raised |-> FALSE, ret |-> tok, exchanges |-> 0,
           access_token |-> tok, token_expire_time |-> expire ]
    ELSE [ raised |-> ~TokenResponseOk(resp),
           ret |-> IF TokenResponseOk(resp) THEN resp.access_token ELSE None,
           exchanges |-> 1,
           access_token |-> resp.access_token,
           token_expire_time |->
               PlusSeconds(FromTimestamp(t2),
                           IF resp.expires_in = NoInt
                           THEN DefaultExpiresIn ELSE resp.expires_in) ]
\* get_token() entered at time t1 with the cache (tok, expire); if it posts,
\* the endpoint answers resp and the answer is processed at time t2.
\* exchanges counts the requests.post calls made.
GetToken(tok, expire, t1, resp, t2) ==
    IF TokenFresh(tok, expire, t1)
    THEN [ raised |-> FALSE, ret |-> tok, exchanges |-> 0,
           access_token |-> tok, token_expire_time |-> expire ]
    ELSE IF ~TokenResponseOk(resp)
    THEN [ raised |-> TRUE, ret |-> None, exchanges |-> 1,
           access_token |-> tok, token_expire_time |-> expire ]
    ELSE [ raised |-> FALSE, ret |-> resp.access_token, exchanges |-> 1,
           access_token |-> resp.access_token,
           token_expire_time |->
               PlusSeconds(FromTimestamp(t2),
                           IF resp.expires_in = NoInt
                           THEN DefaultExpiresIn ELSE resp.expires_in) ]

\* no POST was made
NoResponse == TokenResponse(FALSE, NoInt, FALSE, FALSE, None, NoInt)

\* the record of a get_token call, as its caller observes it: the cache and
\* the clock when it was entered, the answer to its POST if it made one,
\* and its outcome
TCallNone ==
    [ called |-> FALSE, at |-> NoInt, done |-> NoInt,
      before_token |-> None, before_expire |-> NoDate,
      resp |-> NoResponse,
      raised |-> FALSE, ret |-> None, exchanges |-> 0 ]

TCallOf(t1, resp, t2, r) ==
    [ called |-> TRUE, at |-> t1, done |-> t2,
      before_token |-> access_token, before_expire |-> token_expire_time,
      resp |-> IF r.exchanges = 1 THEN resp ELSE NoResponse,
      raised |-> r.raised, ret |-> r.ret, exchanges |-> r.exchanges ]

\* the instants the clock visits in the token check
TokenInstants ==
    { T0 + 100, T0 + 6899, T0 + 6900, T0 + 7000, T0 + 14200 }

\* a direct call of get_token()
TokenCall ==
    /\ \E resp \in TokenResponses, t2 \in {now} \cup TokenInstants :
          /\ t2 >= now
          /\ LET r == GetToken(access_token, token_expire_time, now, resp, t2)
             IN  /\ access_token' = r.access_token
                 /\ token_expire_time' = r.token_expire_time
                 /\ tcall' = TCallOf(now, resp, t2, r)
                 /\ now' = IF r.exchanges = 1 THEN t2 ELSE now
    /\ UNCHANGED << pc, running, polled, wait_left, wait_kind, exc, window,
                    orders_list, current_day, day_orders, cursor, page_count,
                    orders, task, cfg, ucall, cycle >>
    /\ UNCHANGED << fcall, stream, scall, ncall, signalled >>

-----------------------------------------------------------------------------
(* database.py: DatabaseManager.save_orders                                *)

\* An entry of orders_data is one of
\*   [kind |-> "dict", ...]  a raw order (the JSON object of the upstream)
\*   [kind |-> "list", items |-> <<entries>>]  a nested list
\*   [kind |-> "other"]      anything that is neither (a string, a number)
\* A raw order's fields hold None / NoInt where the key is absent.
RawOrder(id, st, sku, prods, name, amt, cnt, pay, cre, upd, src, contacts) ==
    [ kind |-> "dict", order_id |-> id, order_status |-> st, sku_id |-> sku,
      products |-> prods, sku_name |-> name, pay_amount |-> amt, count |-> cnt,
      pay_time |-> pay, create_order_time |-> cre, update_order_time |-> upd,
      source_order_id |-> src, contacts |-> contacts ]

ListEntry(items) == [kind |-> "list", items |-> items]
OtherEntry == [kind |-> "other"]

IsDict(e) == e.kind = "dict"
IsList(e) == e.kind = "list"

\* ---- database.py: DatabaseManager._normalize_secret.  A string is the
\* sequence of the codes of its characters.
SecretLen == 32
PadChar == 35
\* characters str.strip() removes, those str.isspace() holds of: tab to
\* carriage return, the four separators, space, next line, no-break space
\* and the Unicode spaces
Whitespace ==
    (9..13) \cup (28..32) \cup {133, 160, 5760} \cup (8192..8202)
    \cup {8232, 8233, 8239, 8287, 12288}

RECURSIVE LStrip(_)
LStrip(s) ==
    IF s # << >> /\ Head(s) \in Whitespace THEN LStrip(Tail(s)) ELSE s
RECURSIVE RStrip(_)
RStrip(s) ==
    IF s # << >> /\ s[Len(s)] \in Whitespace
    THEN RStrip(SubSeq(s, 1, Len(s) - 1))
    ELSE s
\* line 82
Strip(s) == RStrip(LStrip(s))

\* (variant of PadLoop that pads the right side first)
RECURSIVE PadLoop_RightFirst(_)
PadLoop_RightFirst(s) ==
    IF Len(s) < SecretLen
    THEN LET right == Append(s, PadChar)
         IN  PadLoop_RightFirst(IF Len(right) < SecretLen
                                THEN << PadChar >> \o right
                                ELSE right)
    ELSE s
\* lines 90..93: the while loop that pads, one turn per recursion
RECURSIVE PadLoop(_)
PadLoop(s) ==
    IF Len(s) < SecretLen
    THEN LET left == << PadChar >> \o s
         IN  PadLoop(IF Len(left) < SecretLen
                     THEN Append(left, PadChar)
                     ELSE left)
    ELSE s

\* (variant of TrimLoop that drops a character at both ends in every turn)
RECURSIVE TrimLoop_Pairs(_)
TrimLoop_Pairs(s) ==
    IF Len(s) > SecretLen
    THEN TrimLoop_Pairs(SubSeq(s, 2, Len(s) - 1))
    ELSE s
\* lines 96..99: the while loop that trims, one turn per recursion
RECURSIVE TrimLoop(_)
TrimLoop(s) ==
    IF Len(s) > SecretLen
    THEN LET left == Tail(s)
         IN  TrimLoop(IF Len(left) > SecretLen
                      THEN SubSeq(left, 1, Len(left) - 1)
                      ELSE left)
    ELSE s

\* lines 82..101
NormalizeSecret(secret) ==
    LET s == Strip(secret)
    IN  IF Len(s) = SecretLen THEN s
        ELSE IF Len(s) < SecretLen THEN PadLoop(s)
        ELSE TrimLoop(s)

\* ---- database.py: DatabaseManager._decrypt_phone.  The secrets and the
\* ciphertexts are strings of the model; the ciphertexts stand for the
\* base64 texts
\*   "enc1"    nXbqLQNIRvJsTiKVpzdl/g==   13800000001 under "secret"
\*   "enc2"    MJPsxTZwzBFWWF6McyQDyw==   13800000002 under "secret"
\*   "zeros16" AAAAAAAAAAAAAAAAAAAAAA==   sixteen zero bytes
\*   "garbled" garbled                    not base64
\* lines 128..129, str.encode: the codes of the characters of a secret
Codes(s) ==
    CASE s = "secret"   -> << 115, 101, 99, 114, 101, 116 >>
      [] s = " secret " -> << 32, 115, 101, 99, 114, 101, 116, 32 >>
      [] s = "#############secret#############" ->
            [i \in 1..13 |-> PadChar] \o << 115, 101, 99, 114, 101, 116 >>
            \o [i \in 1..13 |-> PadChar]
      [] s = "other"    -> << 111, 116, 104, 101, 114 >>
      [] s = "secret2"  -> << 115, 101, 99, 114, 101, 116, 50 >>
      [] s = ""         -> << >>

\* line 132: base64.b64decode raises on a text that is not base64
B64Raises(c) == c = "garbled"

\* lines 125..143: the bytes decryptor.update(...) + decryptor.finalize()
\* gives for a ciphertext under the key and IV taken from the normalised
\* secret (the values AES-256-CBC computes)
AesPlain(c, secret32) ==
    LET pad(k)   == [i \in 1..k |-> PadChar]
        kSecret  == pad(13) \o Codes("secret") \o pad(13)
        kOther   == pad(14) \o Codes("other") \o pad(13)
        kSecret2 == pad(13) \o Codes("secret2") \o pad(12)
        kEmpty   == pad(32)
    IN  CASE c = "" -> << >>
          [] c = "enc1" /\ secret32 = kSecret ->
                << 49, 51, 56, 48, 48, 48, 48, 48, 48, 48, 49, 5, 5, 5, 5, 5 >>
          [] c = "enc1" /\ secret32 = kOther ->
                << 231, 201, 61, 70, 37, 137, 115, 168, 24, 113, 154, 71, 236,
                   218, 116, 199 >>
          [] c = "enc1" /\ secret32 = kSecret2 ->
                << 142, 62, 156, 165, 224, 80, 2, 220, 182, 206, 76, 31, 88,
                   116, 167, 122 >>
          [] c = "enc1" /\ secret32 = kEmpty ->
                << 83, 61, 193, 237, 70, 132, 131, 27, 243, 5, 17, 0, 137,
                   239, 255, 58 >>
          [] c = "enc2" /\ secret32 = kSecret ->
                << 49, 51, 56, 48, 48, 48, 48, 48, 48, 48, 50, 5, 5, 5, 5, 5 >>
          [] c = "enc2" /\ secret32 = kOther ->
                << 2, 93, 220, 119, 10, 137, 109, 253, 192, 217, 219, 163,
                   124, 229, 124, 235 >>
          [] c = "enc2" /\ secret32 = kSecret2 ->
                << 119, 37, 122, 229, 173, 68, 187, 110, 192, 118, 224, 37, 5,
                   108, 207, 53 >>
          [] c = "enc2" /\ secret32 = kEmpty ->
                << 99, 47, 156, 66, 161, 152, 153, 4, 73, 112, 7, 226, 40,
                   168, 21, 27 >>
          [] c = "zeros16" /\ secret32 = kSecret ->
                << 97, 46, 215, 141, 166, 107, 43, 110, 244, 179, 49, 250, 31,
                   176, 59, 204 >>
          [] c = "zeros16" /\ secret32 = kOther ->
                << 51, 16, 190, 207, 237, 63, 106, 30, 25, 165, 167, 129, 222,
                   200, 158, 24 >>
          [] c = "zeros16" /\ secret32 = kSecret2 ->
                << 20, 86, 227, 28, 33, 93, 31, 65, 13, 58, 226, 236, 242, 30,
                   103, 181 >>
          [] c = "zeros16" /\ secret32 = kEmpty ->
                << 138, 140, 97, 49, 195, 87, 208, 30, 79, 254, 4, 26, 230,
                   61, 37, 225 >>

\* lines 146..147: decrypted_bytes[:-pad_length] of a non-empty b, with no
\* check of the padding: a last byte of 0 or of Len(b) and more leaves
\* nothing
Unpad(b) ==
    LET pad_length == b[Len(b)]
    IN  IF pad_length = 0 \/ pad_length >= Len(b) THEN << >>
        ELSE SubSeq(b, 1, Len(b) - pad_length)

\* line 150: bytes.decode('utf-8') accepts b
RECURSIVE Utf8Valid(_)
Utf8Valid(b) ==
    IF b = << >> THEN TRUE
    ELSE LET h       == Head(b)
             at(i, S) == i <= Len(b) /\ b[i] \in S
             cont(i) == at(i, 128..191)
             rest(n) == Utf8Valid(SubSeq(b, n + 1, Len(b)))
         IN  CASE h < 128 -> rest(1)
               [] h \in 194..223 -> cont(2) /\ rest(2)
               [] h = 224 -> at(2, 160..191) /\ cont(3) /\ rest(3)
               [] h \in (225..236) \cup (238..239) ->
                     cont(2) /\ cont(3) /\ rest(3)
               [] h = 237 -> at(2, 128..159) /\ cont(3) /\ rest(3)
               [] h = 240 ->
                     at(2, 144..191) /\ cont(3) /\ cont(4) /\ rest(4)
               [] h \in 241..243 ->
                     cont(2) /\ cont(3) /\ cont(4) /\ rest(4)
               [] h = 244 ->
                     at(2, 128..143) /\ cont(3) /\ cont(4) /\ rest(4)
               [] OTHER -> FALSE
\* line 150: the text bytes.decode('utf-8') gives
Decoded(b) ==
    CASE b = << >> -> ""
      [] b = << 49, 51, 56, 48, 48, 48, 48, 48, 48, 48, 49 >> -> "13800000001"
      [] b = << 49, 51, 56, 48, 48, 48, 48, 48, 48, 48, 50 >> -> "13800000002"

\* lines 123..156: the call raises (what the except clause re-raises): None
\* has no strip and is no base64 text, the text is not base64, there is no
\* last byte, or the bytes left are not UTF-8
DecryptRaises(c, secret) ==
    \/ secret = None
    \/ c = None
    \/ B64Raises(c)
    \/ LET plain == AesPlain(c, NormalizeSecret(Codes(secret)))
       IN  plain = << >> \/ ~Utf8Valid(Unpad(plain))
\* lines 123..152: the value returned when the call does not raise
DecryptPhone(c, secret) ==
    Decoded(Unpad(AesPlain(c, NormalizeSecret(Codes(secret)))))

\* lines 314..323: phone of a raw order
PhoneFor(o, secret) ==
    LET phone_encrypt ==
            IF o.contacts # << >> THEN o.contacts[1].phone_encrypt ELSE None
    IN  IF Truthy(phone_encrypt) /\ Truthy(secret)
        THEN IF DecryptRaises(phone_encrypt, secret)
             THEN None
             ELSE DecryptPhone(phone_encrypt, secret)
        ELSE None

\* lines 330..332: datetime.fromtimestamp(ts) if ts else None
TimeFor(ts) == IF TruthyInt(ts) THEN FromTimestamp(ts) ELSE NoDate

\* lines 335..339: sku_id of the root, else of the first product
SkuFor(o) ==
    IF Truthy(o.sku_id) THEN o.sku_id
    ELSE IF o.products # << >> THEN o.products[1].sku_id
    ELSE o.sku_id

\* lines 341..355: the row built from a raw order at time t
RowOf(o, t, secret) ==
    [ order_id        |-> o.order_id,
      order_status    |-> o.order_status,
      sku_id          |-> SkuFor(o),
      sku_name        |-> o.sku_name,
      pay_amount      |-> o.pay_amount,
      count           |-> IF o.count = NoInt THEN 1 ELSE o.count,
      pay_time        |-> TimeFor(o.pay_time),
      create_time     |-> TimeFor(o.create_order_time),
      update_time     |-> TimeFor(o.update_order_time),
      source_order_id |-> o.source_order_id,
      phone           |-> PhoneFor(o, secret),
      raw_data        |-> o,
      sync_time       |-> FromTimestamp(t) ]

\* lines 280..289: one level of nesting is flattened when the first item is
\* a list
RECURSIVE FlatItems(_)
FlatItems(l) ==
    IF l = << >> THEN << >>
    ELSE (IF IsList(Head(l)) THEN Head(l).items ELSE << Head(l) >>)
         \o FlatItems(Tail(l))
\* (variant of Unpack that leaves a nested batch as it is)
Unpack_None(l) == l
Unpack(l) == IF l # << >> /\ IsList(l[1]) THEN FlatItems(l) ELSE l

\* (variant of Dedup used to test C5: the first occurrence is kept)
RECURSIVE DedupFirst(_, _)
DedupFirst(l, m) ==
    IF l = << >> THEN m
    ELSE LET o == Head(l)
         IN  IF IsDict(o) /\ Truthy(o.order_id) /\ o.order_id \notin DOMAIN m
             THEN DedupFirst(Tail(l), (o.order_id :> o) @@ m)
             ELSE DedupFirst(Tail(l), m)
\* lines 293..302: unique_orders_map after the loop over l, started from m
RECURSIVE Dedup(_, _)
Dedup(l, m) ==
    IF l = << >> THEN m
    ELSE LET o == Head(l)
         IN  IF IsDict(o) /\ Truthy(o.order_id)
             THEN Dedup(Tail(l), (o.order_id :> o) @@ m)
             ELSE Dedup(Tail(l), m)

EmptyMap == [x \in {} |-> x]

\* lines 358..374: INSERT ... ON CONFLICT (order_id) DO UPDATE SET ... of one
\* row: the columns named in set_ are taken from the new row
OnConflict(old, new) == [new EXCEPT !.create_time = old.create_time]

UpsertRows(table, rows) ==
    [id \in DOMAIN table \cup DOMAIN rows |->
        IF id \notin DOMAIN rows THEN table[id]
        ELSE IF id \in DOMAIN table THEN OnConflict(table[id], rows[id])
        ELSE rows[id]]

\* (variant of SaveOrders used to test C4: a failed write is not rolled
\* back)
SaveOrders_NoRollback(orders_data, table, t, secret, db_ok) ==
    LET clean == Dedup(Unpack(orders_data), EmptyMap)
        rows  == [id \in DOMAIN clean |-> RowOf(clean[id], t, secret)]
    IN  IF orders_data = << >> \/ DOMAIN clean = {}
        THEN [raised |-> FALSE, ret |-> 0, table |-> table, wrote |-> FALSE]
        ELSE IF ~db_ok
        THEN [raised |-> TRUE, ret |-> NoInt, wrote |-> TRUE,
              table |-> UpsertRows(table, rows)]
        ELSE [raised |-> FALSE, ret |-> Cardinality(DOMAIN rows),
              wrote |-> TRUE, table |-> UpsertRows(table, rows)]
\* (variant of SaveOrders used to test C6: only the inserted rows are
\* counted)
SaveOrders_CountInserted(orders_data, table, t, secret, db_ok) ==
    LET clean == Dedup(Unpack(orders_data), EmptyMap)
        rows  == [id \in DOMAIN clean |-> RowOf(clean[id], t, secret)]
    IN  IF orders_data = << >> \/ DOMAIN clean = {}
        THEN [raised |-> FALSE, ret |-> 0, table |-> table, wrote |-> FALSE]
        ELSE IF ~db_ok
        THEN [raised |-> TRUE, ret |-> NoInt, table |-> table, wrote |-> TRUE]
        ELSE [raised |-> FALSE,
              ret |-> Cardinality(DOMAIN rows \ DOMAIN table),
              wrote |-> TRUE, table |-> UpsertRows(table, rows)]
\* save_orders(orders_data) on the table, at time t; db_ok says whether the
\* execute and the commit go through.  Result: the value returned or the
\* fact that it raised, whether the INSERT statement was issued, and the
\* table afterwards.
SaveOrders(orders_data, table, t, secret, db_ok) ==
    LET clean == Dedup(Unpack(orders_data), EmptyMap)
        rows  == [id \in DOMAIN clean |-> RowOf(clean[id], t, secret)]
    IN  IF orders_data = << >> \/ DOMAIN clean = {}
        THEN [raised |-> FALSE, ret |-> 0, table |-> table, wrote |-> FALSE]
        ELSE IF ~db_ok
        THEN [raised |-> TRUE, ret |-> NoInt, table |-> table, wrote |-> TRUE]
        ELSE [raised |-> FALSE, ret |-> Cardinality(DOMAIN rows),
              wrote |-> TRUE, table |-> UpsertRows(table, rows)]

-----------------------------------------------------------------------------
(* Direct calls of save_orders                                             *)

\* the raw orders and other entries the callers pass
O1a == RawOrder("1", "PAID", "skuA", << >>, "nameA", 100, NoInt,
                T0 - 30, T0 - 50, T0 - 20, "src1",
                << [phone_encrypt |-> "enc1"] >>)
O1b == RawOrder("1", "DONE", None, << [sku_id |-> "skuP"] >>, "nameB", 250, 2,
                T0 - 29, T0 - 40, T0 - 10, "src2",
                << [phone_encrypt |-> "garbled"] >>)
O2  == RawOrder("2", "PAID", "skuB", << >>, "nameC", 300, 1,
                0, T0 - 45, T0 - 15, None, << >>)
O2z == RawOrder("2", "DONE", "skuB", << >>, "nameC", 300, 1,
               0, T0 - 45, T0 - 12, None,
               << [phone_encrypt |-> "zeros16"] >>)
ONoId == RawOrder(None, "PAID", "skuB", << >>, "nameC", 300, 1,
                  0, T0 - 45, T0 - 15, None, << >>)

Entries == { O1a, O1b, O2 }

\* batches with an entry that is skipped, nested ones, and one whose
\* phone decrypts to bytes with a malformed padding
OddBatches ==
    { << ONoId >>, << O1a, ONoId >>, << OtherEntry, O2 >>, << O2z >>,
      << ListEntry(<< O2, O1b >>) >>,
      << ListEntry(<< O1a >>), ListEntry(<< O1b, O2 >>) >>,
      << O1a, ListEntry(<< O2 >>) >>,
      << ListEntry(<< >>) >> }

\* longest orders_data passed in a direct call
MaxBatch == 2

RECURSIVE SeqsUpTo(_, _)
SeqsUpTo(S, n) ==
    IF n = 0 THEN { << >> }
    ELSE LET shorter == SeqsUpTo(S, n - 1)
         IN  shorter \cup { Append(q, x) : q \in shorter, x \in S }

Batches == SeqsUpTo(Entries, MaxBatch) \cup OddBatches

UCallNone ==
    [ called |-> FALSE, flip |-> FALSE, batch |-> << >>, at |-> NoInt,
      had |-> {}, write_failed |-> FALSE, raised |-> FALSE, ret |-> NoInt,
      rep |-> FALSE, prev_ret |-> NoInt, prev_after |-> EmptyMap ]

\* db.save_orders(b), called directly.  ucall records the call: its
\* argument, the clock, the order ids stored before it, whether its write
\* failed, its outcome, and, when it repeats the previous successful call
\* (rep), that call's return value and the table it left.
UpsertCall ==
    /\ \E b \in Batches, db_ok \in BOOLEAN :
          LET r   == SaveOrders(b, orders, now, cfg.app_secret, db_ok)
              rep == ucall.called /\ ucall.batch = b
                     /\ ~ucall.raised /\ ~r.raised
          IN  /\ orders' = r.table
              /\ ucall' = [ called |-> TRUE, flip |-> ~ucall.flip,
                            batch |-> b, at |-> now,
                            had |-> DOMAIN orders,
                            write_failed |-> r.wrote /\ ~db_ok,
                            raised |-> r.raised, ret |-> r.ret,
                            rep |-> rep,
                            prev_ret |-> IF rep THEN ucall.ret ELSE NoInt,
                            prev_after |-> IF rep THEN orders ELSE EmptyMap ]
    /\ UNCHANGED << pc, running, polled, wait_left, wait_kind, exc, window,
                    orders_list, access_token, token_expire_time, current_day,
                    day_orders, cursor, page_count, task, cfg, now, tcall,
                    cycle >>
    /\ UNCHANGED << fcall, stream, scall, ncall, signalled >>

-----------------------------------------------------------------------------
(* Configuration and initial state                                         *)

\* config.py: the values the program reads.  start_time / end_time are
\* NoInt when neither START_DATE nor START_TIME (END_DATE, END_TIME) is set.
Config(secret, account, st, en, days, interval) ==
    [ app_secret |-> secret, account_id |-> account, start_time |-> st,
      end_time |-> en, sync_days |-> days, sync_interval |-> interval ]

NoRow == [exists |-> FALSE]
\* what happened in the current turn of run's loop: a token exchange failed,
\* run_once raised, its write of status ERROR went through; turn counts the
\* tests of 'while self._running' made so far
CycleNone ==
    [ auth_failed |-> FALSE, raised |-> FALSE, error_written |-> FALSE,
      turn |-> 0 ]

\* the record of a fetch_orders call, as its caller observes it: the cursor
\* passed, the answer of the order query, and the outcome
FCallNone ==
    [ called |-> FALSE, cursor |-> << >>,
      resp |-> [ http_ok |-> FALSE, code |-> NoInt, has_data |-> FALSE,
                 orders |-> << >>, cursor_value |-> << >> ],
      raised |-> FALSE,
      result |-> [orders |-> << >>, has_more |-> FALSE, next_cursor |-> << >>] ]

\* the record of a call on the task row, as its caller observes it: the
\* operation, its arguments, the clock, the row before it, whether it went
\* through, and the value returned
SCallNone ==
    [ called |-> FALSE, op |-> "none", status |-> None,
      last_sync_time |-> NoDate, error_message |-> None, at |-> NoInt,
      before |-> NoRow, ok |-> FALSE, ret |-> None ]

\* the record of a _normalize_secret call: its argument and its result
NCallNone == [called |-> FALSE, secret |-> << >>, result |-> << >>]

\* what fetch_all_orders_by_day did for the day slice it is working on: the
\* fetch_orders calls made, the orders they returned in page order, and how
\* the last call ended (it raised; it returned has_more; it returned the
\* cursor it was called with), the cursor the last call was made with and
\* the next_cursor it returned
StreamNone ==
    [ fetches |-> 0, fetched |-> << >>, failed |-> FALSE, more |-> FALSE,
      same_cursor |-> FALSE, cursor |-> << >>, next_cursor |-> << >> ]

\* the state after DouyinOrderSync.__init__ (lines 29..61), for a
\* configuration c
Constructed(c) ==
    /\ pc = "created"
    /\ running = FALSE
    /\ polled = None
    /\ wait_left = 0
    /\ wait_kind = "none"
    /\ exc = None
    /\ window = [start_time |-> NoDate, end_time |-> NoDate]
    /\ orders_list = << >>
    /\ access_token = None
    /\ token_expire_time = NoDate
    /\ current_day = NoDate
    /\ day_orders = << >>
    /\ cursor = << >>
    /\ page_count = 0
    /\ orders = EmptyMap
    /\ task = NoRow
    /\ cfg = c
    /\ now = T0
    /\ tcall = TCallNone
    /\ ucall = UCallNone
    /\ cycle = CycleNone
    /\ fcall = FCallNone
    /\ stream = StreamNone
    /\ scall = SCallNone
    /\ ncall = NCallNone
    /\ signalled = FALSE

DefaultConfig == Config("secret", "acct", NoInt, NoInt, 1, 2)

\* ---- get_token called directly, the clock moving between calls
InitToken == Constructed(DefaultConfig)
NextToken == TokenCall \/ ClockAdvance(TokenInstants)
SpecToken == InitToken /\ [][NextToken]_vars

\* ---- save_orders called directly, the clock moving between calls
UpsertInstants == { T0 + 1 }
InitUpsert == Constructed(DefaultConfig)
NextUpsert == UpsertCall \/ ClockAdvance(UpsertInstants)
SpecUpsert == InitUpsert /\ [][NextUpsert]_vars

-----------------------------------------------------------------------------
(* database.py: the task_monitor row                                       *)

\* (variant of UpsertTaskStatus that clears target_command on an update)
UpsertTaskStatus_ClearCommand(row, status, last_sync_time, error_message, t) ==
    IF row.exists
    THEN [ row EXCEPT
             !.status = status,
             !.last_sync_time =
                 IF last_sync_time # NoDate THEN last_sync_time ELSE @,
             !.error_message =
                 IF Truthy(error_message) THEN error_message ELSE @,
             !.target_command = None,
             !.updated_at = t ]
    ELSE [ exists |-> TRUE, status |-> status,
           last_sync_time |-> last_sync_time, last_heartbeat |-> t,
           target_command |-> None, error_message |-> error_message,
           created_at |-> t, updated_at |-> t ]
\* (variant of UpsertTaskStatus that stamps last_sync_time when it is not
\* given)
UpsertTaskStatus_SyncAlways(row, status, last_sync_time, error_message, t) ==
    IF row.exists
    THEN [ row EXCEPT
             !.status = status,
             !.last_sync_time =
                 IF last_sync_time # NoDate THEN last_sync_time
                 ELSE FromTimestamp(t),
             !.error_message =
                 IF Truthy(error_message) THEN error_message ELSE @,
             !.updated_at = t ]
    ELSE [ exists |-> TRUE, status |-> status,
           last_sync_time |-> last_sync_time, last_heartbeat |-> t,
           target_command |-> None, error_message |-> error_message,
           created_at |-> t, updated_at |-> t ]
\* (variant of UpsertTaskStatus that writes error_message as given, None
\* included)
UpsertTaskStatus_ClearMessage(row, status, last_sync_time, error_message, t) ==
    IF row.exists
    THEN [ row EXCEPT
             !.status = status,
             !.last_sync_time =
                 IF last_sync_time # NoDate THEN last_sync_time ELSE @,
             !.error_message = error_message,
             !.updated_at = t ]
    ELSE [ exists |-> TRUE, status |-> status,
           last_sync_time |-> last_sync_time, last_heartbeat |-> t,
           target_command |-> None, error_message |-> error_message,
           created_at |-> t, updated_at |-> t ]
\* (variant of UpsertTaskStatus that refreshes last_heartbeat on an update)
UpsertTaskStatus_TouchHeartbeat(row, status, last_sync_time, error_message, t) ==
    IF row.exists
    THEN [ row EXCEPT
             !.status = status,
             !.last_sync_time =
                 IF last_sync_time # NoDate THEN last_sync_time ELSE @,
             !.error_message =
                 IF Truthy(error_message) THEN error_message ELSE @,
             !.last_heartbeat = t,
             !.updated_at = t ]
    ELSE [ exists |-> TRUE, status |-> status,
           last_sync_time |-> last_sync_time, last_heartbeat |-> t,
           target_command |-> None, error_message |-> error_message,
           created_at |-> t, updated_at |-> t ]
\* upsert_task_status(task_id, status, last_sync_time, error_message) at
\* time t (lines 402..423); last_sync_time is NoDate and error_message is
\* None when the argument is not given
UpsertTaskStatus(row, status, last_sync_time, error_message, t) ==
    IF row.exists
    THEN [ row EXCEPT
             !.status = status,
             !.last_sync_time =
                 IF last_sync_time # NoDate THEN last_sync_time ELSE @,
             !.error_message =
                 IF Truthy(error_message) THEN error_message ELSE @,
             !.updated_at = t ]
    ELSE [ exists |-> TRUE, status |-> status,
           last_sync_time |-> last_sync_time, last_heartbeat |-> t,
           target_command |-> None, error_message |-> error_message,
           created_at |-> t, updated_at |-> t ]

\* (variant of UpdateHeartbeat that inserts the row when there is none)
UpdateHeartbeat_Insert(row, t) ==
    IF row.exists
    THEN [row EXCEPT !.last_heartbeat = t, !.updated_at = t]
    ELSE [ exists |-> TRUE, status |-> None, last_sync_time |-> NoDate,
           last_heartbeat |-> t, target_command |-> None,
           error_message |-> None, created_at |-> t, updated_at |-> t ]
\* (variant of UpdateHeartbeat that also marks the task RUNNING)
UpdateHeartbeat_Running(row, t) ==
    IF row.exists
    THEN [row EXCEPT !.last_heartbeat = t, !.updated_at = t,
                     !.status = "RUNNING"]
    ELSE row
\* update_heartbeat(task_id) at time t (lines 469..473): an UPDATE ... WHERE,
\* which touches nothing when there is no row; the UPDATE statement also
\* fires the onupdate default of updated_at (line 61)
UpdateHeartbeat(row, t) ==
    IF row.exists
    THEN [row EXCEPT !.last_heartbeat = t, !.updated_at = t]
    ELSE row

\* get_control_command(task_id) (lines 490..491, 443..455)
GetControlCommand(row) == IF row.exists THEN row.target_command ELSE None

\* clear_control_command(task_id) at time t (lines 503..507): an UPDATE ...
\* WHERE, which touches nothing when there is no row and otherwise stores
\* NULL and fires the onupdate default of updated_at (line 61)
ClearControlCommand(row, t) ==
    IF row.exists
    THEN [row EXCEPT !.target_command = None, !.updated_at = t]
    ELSE row

\* (variant of ShouldStop used to test C3: the wrong command is matched)
ShouldStop_OnStart(command) == command = "START"
\* task_manager.py should_stop (lines 81..82), on the command read
ShouldStop(command) == command = "STOP"

-----------------------------------------------------------------------------
(* douyin_api.py: DouyinAPI.fetch_orders                                   *)

\* cursor strings are sequences of pieces: "0" is << "0" >> and
\* ','.join(["7", "8"]) is << "7", ",", "8" >>
FirstCursor == << "0" >>

RECURSIVE Join(_)
Join(l) ==
    IF l = << >> THEN << >>
    ELSE IF Len(l) = 1 THEN << l[1] >>
    ELSE << l[1], "," >> \o Join(Tail(l))

\* What the order query may answer.
\*   http_ok      : requests.get returned and raise_for_status() passed
\*   code         : data.get('code', 0)
\*   has_data     : 'data' in data and data['data']
\*   orders       : data['data'].get('orders', [])
\*   cursor_value : data['data'].get('search_after', {}).get('CursorValue', [])
PageResponse(http, code, data, os, cv) ==
    [ http_ok |-> http, code |-> code, has_data |-> data, orders |-> os,
      cursor_value |-> cv ]

\* (variant of PageResult that takes has_more from the orders of the page)
PageResult_ByOrders(resp, cur) ==
    IF resp.has_data
    THEN [ orders |-> resp.orders,
           has_more |-> resp.orders # << >>,
           next_cursor |-> IF resp.cursor_value # << >>
                           THEN Join(resp.cursor_value) ELSE cur ]
    ELSE [ orders |-> << >>, has_more |-> FALSE, next_cursor |-> cur ]
\* lines 179..207: the result dict built from a response that passed the
\* checks
PageResult(resp, cur) ==
    IF resp.has_data
    THEN [ orders |-> resp.orders,
           has_more |-> resp.cursor_value # << >>,
           next_cursor |-> IF resp.cursor_value # << >>
                           THEN Join(resp.cursor_value) ELSE cur ]
    ELSE [ orders |-> << >>, has_more |-> FALSE, next_cursor |-> cur ]

NoResult == [orders |-> << >>, has_more |-> FALSE, next_cursor |-> << >>]

\* fetch_orders(start, end, cursor = cur, ...) entered at time t1 with the
\* token cache (tok, expire): the account check (133), get_token (137), the
\* GET and its checks (165..176), the result.  tresp / presp are the answers
\* of the two endpoints, t2 the time the token answer is processed.
FetchOrders(account_id, tok, expire, t1, tresp, t2, cur, presp) ==
    LET g == GetToken(tok, expire, t1, tresp, t2)
    IN  IF ~Truthy(account_id)
        THEN [ raised |-> TRUE, auth_failed |-> FALSE, result |-> NoResult,
               access_token |-> tok, token_expire_time |-> expire ]
        ELSE IF g.raised
        THEN [ raised |-> TRUE, auth_failed |-> TRUE, result |-> NoResult,
               access_token |-> g.access_token,
               token_expire_time |-> g.token_expire_time ]
        ELSE IF ~presp.http_ok \/ presp.code # 0
        THEN [ raised |-> TRUE, auth_failed |-> FALSE, result |-> NoResult,
               access_token |-> g.access_token,
               token_expire_time |-> g.token_expire_time ]
        ELSE [ raised |-> FALSE, auth_failed |-> FALSE,
               result |-> PageResult(presp, cur),
               access_token |-> g.access_token,
               token_expire_time |-> g.token_expire_time ]

-----------------------------------------------------------------------------
(* douyin_api.py: DouyinAPI.fetch_all_orders_by_day, driven by list(orders) *)
(* in run_once (main.py line 138)                                          *)

\* max_pages = 200
max_pages == 200

\* line 232 and 234: the outer loop's test and its stop check; lines
\* 239..253: the frame of a day
GenDay ==
    /\ pc = "gen_day"
    /\ IF DtLeq(current_day, window.end_time) /\ running
       THEN /\ day_orders' = << >>
            /\ cursor' = FirstCursor
            /\ page_count' = 0
            /\ pc' = "gen_page"
            /\ UNCHANGED current_day
       ELSE \* the generator returns: list(orders) is complete
            /\ pc' = "ro_listed"
            /\ current_day' = NoDate
            /\ UNCHANGED << day_orders, cursor, page_count >>
    /\ UNCHANGED << running, polled, wait_left, wait_kind, exc, window,
                    orders_list, access_token, token_expire_time, orders,
                    task, cfg, now, tcall, ucall, cycle >>
    /\ UNCHANGED << fcall, stream, scall, ncall, signalled >>

\* (variant of PageLoopRuns whose stop check also reads the command)
PageLoopRuns_StopCommand(count, run) ==
    count < max_pages /\ run /\ GetControlCommand(task) # "STOP"
\* (variant of PageLoopRuns without the stop check)
PageLoopRuns_NoStop(count, run) == count < max_pages
\* (variant of PageLoopRuns without the page cap)
PageLoopRuns_NoCap(count, run) == run
\* lines 255..259: the inner loop's test and its stop check
PageLoopRuns(count, run) == count < max_pages /\ run

\* (variant of PagingStops in which a failed fetch does not end the paging)
PagingStops_IgnoreError(f, cur) ==
    ~f.raised /\ (~f.result.has_more \/ f.result.next_cursor = cur)
\* (variant of PagingStops without the comparison of the cursors)
PagingStops_NoStall(f, cur) == f.raised \/ ~f.result.has_more
\* lines 279..280 and 283..285: the breaks after a fetch_orders call f made
\* with cursor cur
PagingStops(f, cur) ==
    f.raised \/ ~f.result.has_more \/ f.result.next_cursor = cur

\* (variant of AdvanceCursor that keeps the cursor of the call)
AdvanceCursor_Keep(cur, f) == cur
\* lines 277, 281: cursor = next_cursor, after the call f made with cur
AdvanceCursor(cur, f) == f.result.next_cursor

\* lines 255..285: one turn of the inner loop.  TR and PR are the answers
\* the two endpoints may give; the upstream hands out at most dayCap orders
\* and pageCap continuation tokens for a day.
GenPage(TR, PR, dayCap, pageCap) ==
    /\ pc = "gen_page"
    /\ IF PageLoopRuns(page_count, running)
       THEN \E tresp \in TR, presp \in PR :
              /\ Len(day_orders) + Len(presp.orders) <= dayCap
              /\ (presp.cursor_value # << >> => page_count < pageCap)
              /\ LET f == FetchOrders(cfg.account_id, access_token,
                                      token_expire_time, now, tresp, now,
                                      cursor, presp)
                 IN  /\ page_count' = page_count + 1
                     /\ access_token' = f.access_token
                     /\ token_expire_time' = f.token_expire_time
                     /\ cycle' = [cycle EXCEPT
                                    !.auth_failed = @ \/ f.auth_failed]
                     /\ stream' =
                           [ fetches |-> stream.fetches + 1,
                             fetched |-> IF f.raised THEN stream.fetched
                                         ELSE stream.fetched \o f.result.orders,
                             failed |-> f.raised,
                             more |-> ~f.raised /\ f.result.has_more,
                             same_cursor |->
                                 ~f.raised /\ f.result.next_cursor = cursor,
                             cursor |-> cursor,
                             next_cursor |-> IF f.raised THEN << >>
                                             ELSE f.result.next_cursor ]
                     \* line 274 is not reached when fetch_orders raised
                     /\ day_orders' = IF f.raised THEN day_orders
                                      ELSE day_orders \o f.result.orders
                     /\ IF PagingStops(f, cursor)
                        THEN \* break
                             pc' = "gen_yield" /\ UNCHANGED cursor
                        ELSE /\ cursor' = AdvanceCursor(cursor, f)
                             /\ pc' = "gen_page"
       ELSE /\ pc' = "gen_yield"
            /\ UNCHANGED << day_orders, cursor, page_count, access_token,
                            token_expire_time, cycle, stream >>
    /\ UNCHANGED << running, polled, wait_left, wait_kind, exc, window,
                    orders_list, current_day, orders, task, cfg, now, tcall,
                    ucall >>
    /\ UNCHANGED << fcall, scall, ncall, signalled >>

\* (variant of Yielded that yields the day's list whatever it holds)
Yielded_Always(list, batch) == Append(list, batch)
\* lines 291..292: what list() has collected after the day's batch was
\* yielded or not
Yielded(list, batch) ==
    IF batch # << >> THEN Append(list, batch) ELSE list

\* lines 291..294: the day's batch is yielded if it is not empty, and
\* list() appends it to the list it is building; then the next day
GenYield ==
    /\ pc = "gen_yield"
    /\ orders_list' = Yielded(orders_list, day_orders)
    /\ current_day' = PlusDays(current_day, 1)
    /\ pc' = "gen_day"
    \* day_orders, cursor and page_count are assigned anew before they are
    \* read again (lines 248..252)
    /\ day_orders' = << >>
    /\ cursor' = << >>
    /\ page_count' = 0
    /\ UNCHANGED << running, polled, wait_left, wait_kind, exc, window,
                    access_token, token_expire_time, orders, task, cfg, now,
                    tcall, ucall, cycle >>
    /\ stream' = StreamNone
    /\ UNCHANGED << fcall, scall, ncall, signalled >>

-----------------------------------------------------------------------------
(* main.py: DouyinOrderSync.run_once                                       *)

\* a database call either goes through or raises
DbOutcomes == BOOLEAN

\* str(e) of the exceptions run_once handles: a failed write of the orders,
\* a failed write of the task status.  save_orders re-raises what the
\* driver raised (database.py line 382), whose text may be empty, as for an
\* exception raised without arguments.
SaveError == "save_orders failed"
StatusError == "task status write failed"
SaveErrors == {SaveError, ""}

\* line 94: set_task_status('RUNNING')
RoBegin ==
    /\ pc = "ro_begin"
    /\ \E ok \in DbOutcomes :
          IF ok
          THEN /\ task' = UpsertTaskStatus(task, "RUNNING", NoDate, None, now)
               /\ pc' = "ro_window"
               /\ UNCHANGED exc
          ELSE /\ exc' = StatusError
               /\ pc' = "ro_except"
               /\ UNCHANGED task
    /\ UNCHANGED << running, polled, wait_left, wait_kind, window,
                    orders_list, access_token, token_expire_time, current_day,
                    day_orders, cursor, page_count, orders, cfg, now, tcall,
                    ucall, cycle >>
    /\ UNCHANGED << fcall, stream, scall, ncall, signalled >>

\* config.py start_time / end_time (lines 219..279): the value of the
\* property is None (NoInt) when neither the date nor the timestamp is set,
\* the timestamp parsed when it can be; BadDate stands for a configured
\* string that _parse_date or int() rejects, on which the property raises
\* ValueError at every access
BadDate == 0 - 2
DateError == "invalid date format"

\* line 98: 'config.start_time is not None and config.end_time is not None'
\* reads start_time, and end_time only if start_time is not None
WindowRaises(c) ==
    \/ c.start_time = BadDate
    \/ (c.start_time # NoInt /\ c.end_time = BadDate)

\* (variant of WindowOf that always takes the last sync_days days)
WindowOf_Relative(c, t) ==
    [ start_time |-> FromTimestamp(t - c.sync_days * DaySeconds),
      end_time   |-> FromTimestamp(t) ]
\* lines 98..111: the window, from the explicit configuration when both ends
\* are set, else the last sync_days days
WindowOf(c, t) ==
    IF c.start_time # NoInt /\ c.end_time # NoInt
    THEN [ start_time |-> FromTimestamp(c.start_time),
           end_time   |-> FromTimestamp(c.end_time) ]
    ELSE [ start_time |-> FromTimestamp(t - c.sync_days * DaySeconds),
           end_time   |-> FromTimestamp(t) ]

\* lines 98..138: the window is resolved, the generator is created and
\* list(orders) starts to run it (line 230); a ValueError of the
\* configuration is handled as any exception of run_once (line 157)
RoWindow ==
    /\ pc = "ro_window"
    /\ IF WindowRaises(cfg)
       THEN /\ exc' = DateError
            /\ pc' = "ro_except"
            /\ UNCHANGED << window, current_day, orders_list >>
       ELSE /\ window' = WindowOf(cfg, now)
            /\ current_day' = window'.start_time
            /\ orders_list' = << >>
            /\ pc' = "gen_day"
            /\ UNCHANGED exc
    /\ UNCHANGED << running, polled, wait_left, wait_kind, access_token,
                    token_expire_time, day_orders, cursor, page_count, orders,
                    task, cfg, now, tcall, ucall, cycle >>
    /\ UNCHANGED << fcall, stream, scall, ncall, signalled >>

\* the locals of run_once when it is not running
NoWindow == [start_time |-> NoDate, end_time |-> NoDate]

\* lines 140..142: nothing fetched, return 0 (back in run, line 228)
RoListed ==
    /\ pc = "ro_listed"
    /\ IF orders_list = << >>
       THEN /\ pc' = "wait"
            /\ wait_kind' = "interval"
            /\ wait_left' = cfg.sync_interval
            /\ window' = NoWindow
       ELSE /\ pc' = "ro_save"
            /\ UNCHANGED << wait_kind, wait_left, window >>
    /\ UNCHANGED << running, polled, exc, orders_list, access_token,
                    token_expire_time, current_day, day_orders, cursor,
                    page_count, orders, task, cfg, now, tcall, ucall, cycle >>
    /\ UNCHANGED << fcall, stream, scall, ncall, signalled >>

\* orders_list is a list of the day batches: each is a nested list for
\* save_orders
AsEntries(batches) == [i \in 1..Len(batches) |-> ListEntry(batches[i])]

\* line 145: db_manager.save_orders(orders_list)
RoSave ==
    /\ pc = "ro_save"
    /\ \E ok \in DbOutcomes, e \in SaveErrors :
          LET r == SaveOrders(AsEntries(orders_list), orders, now,
                              cfg.app_secret, ok)
          IN  /\ orders' = r.table
              /\ IF r.raised
                 THEN exc' = e /\ pc' = "ro_except"
                 ELSE pc' = "ro_sync" /\ UNCHANGED exc
    /\ UNCHANGED << running, polled, wait_left, wait_kind, window,
                    orders_list, access_token, token_expire_time, current_day,
                    day_orders, cursor, page_count, task, cfg, now, tcall,
                    ucall, cycle >>
    /\ UNCHANGED << fcall, stream, scall, ncall, signalled >>

\* lines 148..155: set_task_status('RUNNING', last_sync_time = end_time),
\* return (back in run, line 228)
RoSync ==
    /\ pc = "ro_sync"
    /\ \E ok \in DbOutcomes :
          IF ok
          THEN /\ task' = UpsertTaskStatus(task, "RUNNING", window.end_time,
                                           None, now)
               /\ pc' = "wait"
               /\ wait_kind' = "interval"
               /\ wait_left' = cfg.sync_interval
               /\ window' = NoWindow
               /\ orders_list' = << >>
               /\ UNCHANGED exc
          ELSE /\ exc' = StatusError
               /\ pc' = "ro_except"
               /\ UNCHANGED << task, wait_kind, wait_left, window,
                               orders_list >>
    /\ UNCHANGED << running, polled, access_token,
                    token_expire_time, current_day, day_orders, cursor,
                    page_count, orders, cfg, now, tcall, ucall, cycle >>
    /\ UNCHANGED << fcall, stream, scall, ncall, signalled >>

\* smart_wait(60) after a failed cycle (line 224)
BackoffSeconds == 60
\* smart_wait(10) while stopped (line 210)
StoppedSeconds == 10

\* (variant of RoExcept after which run waits the configured interval)
RoExcept_IntervalWait ==
    /\ pc = "ro_except"
    /\ \E ok \in DbOutcomes :
          /\ task' = IF ok
                     THEN UpsertTaskStatus(task, "ERROR", NoDate, exc, now)
                     ELSE task
          /\ cycle' = [cycle EXCEPT !.raised = TRUE, !.error_written = ok]
    /\ pc' = "wait"
    /\ wait_kind' = "backoff"
    /\ wait_left' = cfg.sync_interval
    /\ exc' = None
    /\ window' = NoWindow
    /\ orders_list' = << >>
    /\ UNCHANGED << running, polled, access_token,
                    token_expire_time, current_day, day_orders, cursor,
                    page_count, orders, cfg, now, tcall, ucall >>
    /\ UNCHANGED << fcall, stream, scall, ncall, signalled >>
\* lines 157..163: set_task_status('ERROR', error_message = str(e)); raise.
\* Whether that call goes through or raises itself, an exception leaves
\* run_once and run catches it (lines 221..224).
RoExcept ==
    /\ pc = "ro_except"
    /\ \E ok \in DbOutcomes :
          /\ task' = IF ok
                     THEN UpsertTaskStatus(task, "ERROR", NoDate, exc, now)
                     ELSE task
          /\ cycle' = [cycle EXCEPT !.raised = TRUE, !.error_written = ok]
    /\ pc' = "wait"
    /\ wait_kind' = "backoff"
    /\ wait_left' = BackoffSeconds
    /\ exc' = None
    /\ window' = NoWindow
    /\ orders_list' = << >>
    /\ UNCHANGED << running, polled, access_token,
                    token_expire_time, current_day, day_orders, cursor,
                    page_count, orders, cfg, now, tcall, ucall >>
    /\ UNCHANGED << fcall, stream, scall, ncall, signalled >>

-----------------------------------------------------------------------------
(* main.py: DouyinOrderSync.run, smart_wait, stop, signal_handler          *)

\* line 202
RunStart ==
    /\ pc = "created"
    /\ running' = TRUE
    /\ pc' = "loop"
    /\ UNCHANGED << polled, wait_left, wait_kind, exc, window, orders_list,
                    access_token, token_expire_time, current_day, day_orders,
                    cursor, page_count, orders, task, cfg, now, tcall, ucall,
                    cycle >>
    /\ UNCHANGED << fcall, stream, scall, ncall, signalled >>

\* line 205: while self._running
LoopTest ==
    /\ pc = "loop"
    /\ pc' = IF running THEN "poll" ELSE "finally"
    /\ cycle' = [CycleNone EXCEPT !.turn = cycle.turn + 1]
    /\ polled' = None
    /\ UNCHANGED << running, wait_left, wait_kind, exc, window,
                    orders_list, access_token, token_expire_time, current_day,
                    day_orders, cursor, page_count, orders, task, cfg, now,
                    tcall, ucall >>
    /\ UNCHANGED << fcall, stream, scall, ncall, signalled >>

\* line 207: should_stop(); a failing read leaves the loop through the
\* handler of line 233
Poll ==
    /\ pc = "poll"
    /\ \E ok \in DbOutcomes :
          IF ok
          THEN /\ polled' = GetControlCommand(task)
               /\ pc' = IF ShouldStop(polled') THEN "set_stopped"
                                               ELSE "heartbeat"
          ELSE /\ pc' = "finally"
               /\ UNCHANGED polled
    /\ UNCHANGED << running, wait_left, wait_kind, exc, window, orders_list,
                    access_token, token_expire_time, current_day, day_orders,
                    cursor, page_count, orders, task, cfg, now, tcall, ucall,
                    cycle >>
    /\ UNCHANGED << fcall, stream, scall, ncall, signalled >>

\* lines 209..211: set_task_status('STOPPED'); smart_wait(10); continue
SetStopped ==
    /\ pc = "set_stopped"
    /\ \E ok \in DbOutcomes :
          IF ok
          THEN /\ task' = UpsertTaskStatus(task, "STOPPED", NoDate, None, now)
               /\ pc' = "wait"
               /\ wait_kind' = "stopped"
               /\ wait_left' = StoppedSeconds
          ELSE /\ pc' = "finally"
               /\ UNCHANGED << task, wait_kind, wait_left >>
    /\ UNCHANGED << running, polled, exc, window, orders_list, access_token,
                    token_expire_time, current_day, day_orders, cursor,
                    page_count, orders, cfg, now, tcall, ucall, cycle >>
    /\ UNCHANGED << fcall, stream, scall, ncall, signalled >>

\* line 216: update_heartbeat(); line 220: run_once()
Heartbeat ==
    /\ pc = "heartbeat"
    /\ \E ok \in DbOutcomes :
          IF ok
          THEN task' = UpdateHeartbeat(task, now) /\ pc' = "ro_begin"
          ELSE pc' = "finally" /\ UNCHANGED task
    /\ UNCHANGED << running, polled, wait_left, wait_kind, exc, window,
                    orders_list, access_token, token_expire_time, current_day,
                    day_orders, cursor, page_count, orders, cfg, now, tcall,
                    ucall, cycle >>
    /\ UNCHANGED << fcall, stream, scall, ncall, signalled >>

\* lines 177..188: one turn of smart_wait's loop, or its end
WaitTick ==
    /\ pc = "wait"
    /\ IF wait_left > 0 /\ running
       THEN \E ok \in DbOutcomes :
              IF ~ok
              THEN /\ pc' = "finally" /\ wait_left' = 0 /\ wait_kind' = "none"
                   /\ UNCHANGED now
              ELSE IF ShouldStop(GetControlCommand(task))
              THEN /\ pc' = "loop" /\ wait_left' = 0 /\ wait_kind' = "none"
                   /\ UNCHANGED now
              ELSE \* time.sleep(1): the clock is a second later
                   /\ pc' = "wait"
                   /\ wait_left' = wait_left - 1
                   /\ now' = now + 1
                   /\ UNCHANGED wait_kind
       ELSE /\ pc' = "loop" /\ wait_left' = 0 /\ wait_kind' = "none"
            /\ UNCHANGED now
    /\ UNCHANGED << running, polled, exc, window, orders_list,
                    access_token, token_expire_time, current_day, day_orders,
                    cursor, page_count, orders, task, cfg, tcall, ucall,
                    cycle >>
    /\ UNCHANGED << fcall, stream, scall, ncall, signalled >>

\* lines 236, 246..251: stop(); a failure of the write is logged only
Finally ==
    /\ pc = "finally"
    /\ \E ok \in DbOutcomes :
          task' = IF ok
                  THEN UpsertTaskStatus(task, "STOPPED", NoDate, None, now)
                  ELSE task
    /\ pc' = "exited"
    /\ polled' = None
    /\ cycle' = CycleNone
    /\ UNCHANGED << running, wait_left, wait_kind, exc, window,
                    orders_list, access_token, token_expire_time, current_day,
                    day_orders, cursor, page_count, orders, cfg, now, tcall,
                    ucall >>
    /\ UNCHANGED << fcall, stream, scall, ncall, signalled >>

\* lines 73..83: SIGTERM or SIGINT is delivered between two steps
Signal ==
    /\ pc \notin {"created", "exited"}
    /\ running' = FALSE
    /\ signalled' = TRUE
    /\ UNCHANGED << pc, polled, wait_left, wait_kind, exc, window,
                    orders_list, access_token, token_expire_time, current_day,
                    day_orders, cursor, page_count, orders, task, cfg, now,
                    tcall, ucall, cycle >>
    /\ UNCHANGED << fcall, stream, scall, ncall >>

\* lines 61, 73..83: the handlers are installed by the last statement of
\* __init__, so a signal can be delivered before run() has executed line 202;
\* the handler stores False in a flag that is still False
SignalEarly ==
    /\ pc = "created"
    /\ running' = FALSE
    /\ signalled' = TRUE
    /\ UNCHANGED << pc, polled, wait_left, wait_kind, exc, window,
                    orders_list, access_token, token_expire_time, current_day,
                    day_orders, cursor, page_count, orders, task, cfg, now,
                    tcall, ucall, cycle >>
    /\ UNCHANGED << fcall, stream, scall, ncall >>

\* the operator writes target_command of the task's row (the program never
\* writes that column)
Commands == {None, "STOP", "START"}
Operator ==
    /\ task.exists
    /\ \E c \in Commands :
          /\ c # task.target_command
          /\ task' = [task EXCEPT !.target_command = c]
    /\ UNCHANGED << pc, running, polled, wait_left, wait_kind, exc, window,
                    orders_list, access_token, token_expire_time, current_day,
                    day_orders, cursor, page_count, orders, cfg, now, tcall,
                    ucall, cycle >>
    /\ UNCHANGED << fcall, stream, scall, ncall, signalled >>

\* ---- database.py: DatabaseManager._normalize_secret, called directly
\* the secrets passed: a body of n characters, all different, the second
\* one a space when inner is set, between lead and trail whitespace
\* characters taken in turn from tab, vertical tab, no-break space and
\* space
MaxSecret == 36
MaxBlank == 2
Blanks(k, a) == [i \in 1..k |-> << 32, 9, 11, 160 >>[((i + a) % 4) + 1]]
Body(n, inner) == [i \in 1..n |-> IF inner /\ i = 2 THEN 32 ELSE 64 + i]
Secrets ==
    { Blanks(lead, a) \o Body(n, inner) \o Blanks(trail, a) :
        lead \in 0..MaxBlank, trail \in 0..MaxBlank, a \in {0, 2},
        n \in 0..MaxSecret, inner \in BOOLEAN }

NormalizeCall ==
    /\ \E secret \in Secrets :
          ncall' = [ called |-> TRUE, secret |-> secret,
                     result |-> NormalizeSecret(secret) ]
    /\ UNCHANGED << pc, running, polled, wait_left, wait_kind, exc, window,
                    orders_list, access_token, token_expire_time, current_day,
                    day_orders, cursor, page_count, orders, task, cfg, now,
                    tcall, ucall, cycle, fcall, stream, scall, signalled >>

InitSecret == Constructed(DefaultConfig)
NextSecret == NormalizeCall
SpecSecret == InitSecret /\ [][NextSecret]_vars

\* ---- the task row's operations called directly, the clock moving between
\* calls and the operator writing commands
Statuses == {"RUNNING", "ERROR", "STOPPED"}
SyncTimes == {NoDate, FromTimestamp(T0)}
Messages == {None, "", "boom"}
TaskInstants == {T0 + 1}

\* task_manager.py set_task_status (lines 58..63): a failing write rolls
\* back and raises (database.py lines 424..426)
SetStatusCall ==
    \E status \in Statuses, lst \in SyncTimes, msg \in Messages,
       ok \in DbOutcomes :
        /\ task' = IF ok THEN UpsertTaskStatus(task, status, lst, msg, now)
                         ELSE task
        /\ scall' = [ called |-> TRUE, op |-> "set_task_status",
                      status |-> status, last_sync_time |-> lst,
                      error_message |-> msg, at |-> now, before |-> task,
                      ok |-> ok, ret |-> None ]
        /\ UNCHANGED << pc, running, polled, wait_left, wait_kind, exc,
                        window, orders_list, access_token, token_expire_time,
                        current_day, day_orders, cursor, page_count, orders,
                        cfg, now, tcall, ucall, cycle, fcall, stream, ncall, signalled >>

\* task_manager.py update_heartbeat (line 31)
HeartbeatCall ==
    \E ok \in DbOutcomes :
        /\ task' = IF ok THEN UpdateHeartbeat(task, now) ELSE task
        /\ scall' = [ SCallNone EXCEPT !.called = TRUE,
                                       !.op = "update_heartbeat",
                                       !.at = now, !.before = task,
                                       !.ok = ok ]
        /\ UNCHANGED << pc, running, polled, wait_left, wait_kind, exc,
                        window, orders_list, access_token, token_expire_time,
                        current_day, day_orders, cursor, page_count, orders,
                        cfg, now, tcall, ucall, cycle, fcall, stream, ncall, signalled >>

\* task_manager.py get_control_command (line 40): get_task_status has no
\* except clause, so a failing query raises out of the call
CommandCall ==
    /\ \E ok \in DbOutcomes :
          scall' = [ SCallNone EXCEPT !.called = TRUE,
                                     !.op = "get_control_command",
                                     !.at = now, !.before = task, !.ok = ok,
                                     !.ret = IF ok
                                             THEN GetControlCommand(task)
                                             ELSE None ]
    /\ UNCHANGED << pc, running, polled, wait_left, wait_kind, exc,
                    window, orders_list, access_token, token_expire_time,
                    current_day, day_orders, cursor, page_count, orders,
                    task, cfg, now, tcall, ucall, cycle, fcall, stream,
                    ncall, signalled >>

\* task_manager.py clear_control_command (line 46): a failing write rolls
\* back and raises (database.py lines 508..510)
ClearCommandCall ==
    \E ok \in DbOutcomes :
        /\ task' = IF ok THEN ClearControlCommand(task, now) ELSE task
        /\ scall' = [ SCallNone EXCEPT !.called = TRUE,
                                       !.op = "clear_control_command",
                                       !.at = now, !.before = task,
                                       !.ok = ok ]
        /\ UNCHANGED << pc, running, polled, wait_left, wait_kind, exc,
                        window, orders_list, access_token, token_expire_time,
                        current_day, day_orders, cursor, page_count, orders,
                        cfg, now, tcall, ucall, cycle, fcall, stream, ncall,
                        signalled >>

InitTask == Constructed(DefaultConfig)
NextTask ==
    \/ SetStatusCall
    \/ HeartbeatCall
    \/ CommandCall
    \/ ClearCommandCall
    \/ Operator
    \/ ClockAdvance(TaskInstants)
SpecTask == InitTask /\ [][NextTask]_vars

-----------------------------------------------------------------------------
(* The synchronisation process and its environment: the upstream, the     *)
(* database, the operator and the signals.  The clock moves by the        *)
(* seconds smart_wait sleeps; the time the calls take is not counted.      *)
(* The actions are the program's; each specification composes them with    *)
(* the bounds on its environment: how many turns of the loop pass before   *)
(* the shutdown signal, and when the environment acts during a wait.       *)

\* the configurations: the last day; an explicit window of 25 hours
Configs ==
    { Config("secret", "acct", NoInt, NoInt, 1, 2),
      Config("secret", "acct", T0 - 90000, T0, 1, 2),
      Config("secret", None, NoInt, NoInt, 1, 2) }

\* the answers of the token endpoint and of the order query
LoopTokenResponses ==
    { TokenResponse(TRUE, 0, TRUE, TRUE, "tokA", NoInt),
      TokenResponse(TRUE, 40001, TRUE, TRUE, "tokA", NoInt) }
LoopPageResponses ==
    { PageResponse(FALSE, 0, FALSE, << >>, << >>),
      PageResponse(TRUE, 0, FALSE, << >>, << >>) }
    \cup { PageResponse(TRUE, 0, TRUE, os, cv) :
             os \in { << >>, << O1a >> },
             cv \in { << >>, << "7", "8" >> } }

\* orders the upstream holds for one day slice, and continuation tokens it
\* hands out for one
MaxDayOrders == 1
MaxMorePages == 1

Init == \E c \in Configs : Constructed(c)

\* a run is followed through its first MaxTurns turns of run's loop, every
\* wait of which runs its whole length: the shutdown signal arrives before
\* the loop is entered another time
MaxTurns == 3
Followed == cycle.turn < MaxTurns \/ pc' = "finally"

\* the seconds the smart_wait call in progress was given (lines 210, 224,
\* 229)
WaitLength ==
    CASE wait_kind = "backoff" -> BackoffSeconds
      [] wait_kind = "stopped" -> StoppedSeconds
      [] OTHER -> cfg.sync_interval
\* the environment acts on a waiting process at the start of the wait: the
\* operator writes, the signal arrives and the database fails before the
\* wait begins or within its first MaxSlept seconds, and a wait that has
\* lasted longer runs undisturbed to its end
MaxSlept == 2
Early == pc = "wait" => WaitLength - wait_left <= MaxSlept

Next ==
    \/ RunStart \/ (LoopTest /\ Followed) \/ Poll \/ SetStopped \/ Heartbeat
    \/ RoBegin \/ RoWindow \/ GenDay
    \/ GenPage(LoopTokenResponses, LoopPageResponses, MaxDayOrders,
               MaxMorePages)
    \/ GenYield \/ RoListed \/ RoSave \/ RoSync \/ RoExcept
    \/ (WaitTick /\ (pc' = "finally" => Early)) \/ Finally
    \/ (Signal /\ Early) \/ (Operator /\ Early)

Spec == Init /\ [][Next]_vars

\* ---- the process with the start and end of the window configured in
\* every way, the upstream giving no orders, the signal and the database
\* failures coming at any second
WindowConfigs ==
    { Config("secret", "acct", st, en, 1, 2) :
        st \in {NoInt, T0 - 90000, BadDate}, en \in {NoInt, T0, BadDate} }
WindowTokenResponses == { TokenResponse(TRUE, 0, TRUE, TRUE, "tokA", NoInt) }
WindowPageResponses == { PageResponse(TRUE, 0, TRUE, << >>, << >>) }

InitWindow == \E c \in WindowConfigs : Constructed(c)
NextWindow ==
    \/ RunStart \/ (LoopTest /\ Followed) \/ Poll \/ Heartbeat
    \/ RoBegin \/ RoWindow \/ GenDay
    \/ GenPage(WindowTokenResponses, WindowPageResponses, MaxDayOrders,
               MaxMorePages)
    \/ GenYield \/ RoListed \/ RoExcept
    \/ WaitTick \/ Finally
    \/ Signal
SpecWindow == InitWindow /\ [][NextWindow]_vars

\* ---- the process with a short interval and with the default one
\* (config.py line 36), the upstream giving no orders, the signal and the
\* database failures coming at any second
DefaultInterval == 3600
WaitConfigs ==
    { Config("secret", "acct", NoInt, NoInt, 1, i) : i \in {2, DefaultInterval} }

InitWait == \E c \in WaitConfigs : Constructed(c)
NextWait ==
    \/ RunStart \/ (LoopTest /\ Followed) \/ Poll \/ Heartbeat
    \/ RoBegin \/ RoWindow \/ GenDay
    \/ GenPage(WindowTokenResponses, WindowPageResponses, MaxDayOrders,
               MaxMorePages)
    \/ GenYield \/ RoListed \/ RoExcept
    \/ WaitTick \/ Finally
    \/ Signal
SpecWait == InitWait /\ [][NextWait]_vars

InitSignal == Constructed(Config("secret", "acct", T0 - 90000, T0, 1, 2))

\* the same program with the signal allowed at every moment after line 61,
\* the time between construction and run() included
NextSignal == Next \/ SignalEarly
SpecSignal == InitSignal /\ [][NextSignal]_vars

-----------------------------------------------------------------------------
(* fetch_all_orders_by_day consumed on its own: list(api.fetch_all_orders_ *)
(* by_day(start, end, check_stop_callback = ...)), the stop flag being     *)
(* self._running                                                           *)

\* the windows: exactly one day (2024-01-01 00:00:00 to 2024-01-02
\* 00:00:00), 25 hours, one hour
StreamWindows ==
    { [ start_time |-> FromTimestamp(T0),
        end_time   |-> FromTimestamp(T0 + DaySeconds) ],
      [ start_time |-> FromTimestamp(T0 - 90000),
        end_time   |-> FromTimestamp(T0) ],
      [ start_time |-> FromTimestamp(T0),
        end_time   |-> FromTimestamp(T0 + 3600) ] }

\* the answers of the order query, pages of at most two orders
StreamPageResponses ==
    { PageResponse(FALSE, 0, FALSE, << >>, << >>),
      PageResponse(TRUE, 2100004, FALSE, << >>, << >>),
      PageResponse(TRUE, 0, FALSE, << >>, << >>) }
    \cup { PageResponse(TRUE, 0, TRUE, os, cv) :
             os \in { << >>, << O1a >>, << O2, O1a >> },
             cv \in { << >>, << "0" >>, << "7", "8" >>, << "9" >> } }

\* orders the upstream holds for one day slice, and continuation tokens it
\* hands out for one
StreamDayOrders == 3
StreamMorePages == 3

\* the generator is created and list() starts to run it (line 230)
StreamOpen ==
    /\ pc = "created"
    /\ \E w \in StreamWindows :
          /\ window' = w
          /\ current_day' = w.start_time
    /\ running' = TRUE
    /\ orders_list' = << >>
    /\ pc' = "gen_day"
    /\ UNCHANGED << polled, wait_left, wait_kind, exc, access_token,
                    token_expire_time, day_orders, cursor, page_count, orders,
                    task, cfg, now, tcall, ucall, cycle, fcall, stream,
                    scall, ncall, signalled >>

InitStream == Constructed(DefaultConfig)
NextStream ==
    \/ StreamOpen \/ GenDay
    \/ GenPage(LoopTokenResponses, StreamPageResponses, StreamDayOrders,
               StreamMorePages)
    \/ GenYield \/ Signal
SpecStream == InitStream /\ [][NextStream]_vars

\* ---- the same with an upstream that hands out continuation tokens without
\* end: pages of at most one order
PagingPageResponses ==
    { PageResponse(FALSE, 0, FALSE, << >>, << >>),
      PageResponse(TRUE, 0, FALSE, << >>, << >>) }
    \cup { PageResponse(TRUE, 0, TRUE, os, cv) :
             os \in { << >>, << O1a >> },
             cv \in { << >>, << "0" >>, << "7", "8" >>, << "9" >> } }

PagingTokenResponses == { TokenResponse(TRUE, 0, TRUE, TRUE, "tokA", NoInt) }

PagingDayOrders == 1

InitPaging == Constructed(DefaultConfig)
NextPaging ==
    \/ StreamOpen \/ GenDay
    \/ GenPage(PagingTokenResponses, PagingPageResponses, PagingDayOrders,
               max_pages)
    \/ GenYield \/ Signal
SpecPaging == InitPaging /\ [][NextPaging]_vars

-----------------------------------------------------------------------------
(* fetch_orders called directly                                            *)

FetchCursors == { FirstCursor, << "7" >>, << "7", ",", "8" >>, << "9" >> }

FetchPageResponses ==
    StreamPageResponses
    \cup { PageResponse(TRUE, 0, TRUE, << O1a >>, << "7" >>),
           PageResponse(TRUE, 0, TRUE, << >>, << "7", "8", "9" >>) }

\* api.fetch_orders(start, end, cursor = cur)
FetchCall ==
    /\ \E cur \in FetchCursors, tresp \in LoopTokenResponses,
          presp \in FetchPageResponses :
          LET f == FetchOrders(cfg.account_id, access_token,
                               token_expire_time, now, tresp, now, cur, presp)
          IN  /\ access_token' = f.access_token
              /\ token_expire_time' = f.token_expire_time
              /\ fcall' = [ called |-> TRUE, cursor |-> cur, resp |-> presp,
                            raised |-> f.raised, result |-> f.result ]
    /\ UNCHANGED << pc, running, polled, wait_left, wait_kind, exc, window,
                    orders_list, current_day, day_orders, cursor, page_count,
                    orders, task, cfg, now, tcall, ucall, cycle, stream,
                    scall, ncall, signalled >>

InitFetch == Constructed(DefaultConfig)
NextFetch == FetchCall
SpecFetch == InitFetch /\ [][NextFetch]_vars

-----------------------------------------------------------------------------
(* Properties of the synchronisation process (checked under Spec)          *)

\* C1 as stated: run_once holds at most one day batch that is not yet
\* upserted, and no page is fetched while one is held.
C1_Original ==
    /\ Len(orders_list) <= 1
    /\ pc = "gen_page" => orders_list = << >>

\* C2 as stated: when the write of the orders fails after more than one
\* day was fetched, the orders of the earlier days are in the table when
\* run_once raises.
C2_Original ==
    (pc = "ro_except" /\ exc = SaveError /\ Len(orders_list) >= 2) =>
        \A i \in 1..(Len(orders_list) - 1) :
            \A k \in 1..Len(orders_list[i]) :
                orders_list[i][k].order_id \in DOMAIN orders

\* C3: when the poll at the top of the loop reads STOP, that turn of the
\* loop sets status STOPPED and waits; it reaches neither the heartbeat nor
\* run_once.  (polled is the command read by the poll of the current turn.)
C3_StopPausesCycles ==
    polled = "STOP" =>
        /\ pc \in {"set_stopped", "wait", "loop", "finally"}
        /\ pc = "wait" =>
              /\ wait_kind = "stopped"
              /\ task.exists /\ task.status = "STOPPED"

\* C3 witness: orders were synchronised, then STOP was read, STOPPED was
\* written and the stopped wait has slept its ten seconds
C3_Witness ==
    /\ polled = "STOP"
    /\ pc = "wait" /\ wait_left = 0
    /\ now >= T0 + StoppedSeconds
    /\ task.exists /\ task.status = "STOPPED"
    /\ task.last_sync_time # NoDate
    /\ orders # EmptyMap

\* C10 as stated: when the token exchange fails during a cycle, run_once
\* raises, status ERROR is written and run waits the failure backoff.
C10_Original ==
    (pc = "wait" /\ cycle.auth_failed) =>
        /\ cycle.raised
        /\ wait_kind = "backoff"
        /\ cycle.error_written => task.status = "ERROR"

-----------------------------------------------------------------------------
(* Properties of save_orders (checked under SpecUpsert)                    *)

\* the entries save_orders iterates over (one level of nesting removed),
\* written out for the batches of the check
FlatOf(b) ==
    IF b # << >> /\ b[1].kind = "list"
    THEN Flatten([i \in 1..Len(b) |->
                    IF b[i].kind = "list" THEN b[i].items ELSE << b[i] >>])
    ELSE b

\* positions in the flattened batch of the raw orders with order_id id
Occurrences(b, id) ==
    { i \in 1..Len(FlatOf(b)) :
        FlatOf(b)[i].kind = "dict" /\ FlatOf(b)[i].order_id = id }

\* the last raw order with this id in input order
LastOccurrence(b, id) ==
    FlatOf(b)[CHOOSE i \in Occurrences(b, id) :
                 \A j \in Occurrences(b, id) : j <= i]

OrderIds == {"1", "2"}

\* a row without the columns named
WithoutCreate(row) == [row EXCEPT !.create_time = NoDate]
WithoutSync(table) ==
    [id \in DOMAIN table |-> [table[id] EXCEPT !.sync_time = NoDate]]

\* the last call returned normally after writing
UCallWrote == ucall.called /\ ~ucall.raised /\ ucall.ret > 0

\* C4: if the write of a batch fails, save_orders raises and the table is
\* exactly what it was before the call.
C4_AllOrNothing ==
    [][ (ucall'.flip # ucall.flip /\ ucall'.write_failed)
            => (ucall'.raised /\ orders' = orders) ]_vars

\* C4 witness: a failed write of a batch whose order is stored with other
\* values
C4_Witness ==
    /\ ucall.called /\ ucall.write_failed /\ ucall.raised
    /\ ucall.batch = << O1b, O2 >>
    /\ DOMAIN orders = {"1"}
    /\ orders["1"].raw_data = O1a

\* C5: after a successful save_orders of a batch that holds several raw
\* orders with the same order_id, the stored row of that id carries the
\* payload of the last of them and every column the statement writes is
\* derived from it; when the id was not stored before, the whole row is.
C5_LastOccurrenceWins ==
    UCallWrote =>
        \A id \in OrderIds :
            Cardinality(Occurrences(ucall.batch, id)) >= 2 =>
                LET last == LastOccurrence(ucall.batch, id)
                    row  == RowOf(last, ucall.at, cfg.app_secret)
                IN  /\ id \in DOMAIN orders
                    /\ orders[id].raw_data = last
                    /\ WithoutCreate(orders[id]) = WithoutCreate(row)
                    /\ id \notin ucall.had => orders[id] = row

\* C5 witness: two different raw orders of id "1" in one batch, saved
C5_Witness ==
    /\ UCallWrote
    /\ ucall.batch = << O1b, O1a >>
    /\ orders["1"].raw_data = O1a

\* C6 as stated: a second save_orders of the same batch leaves the table
\* as the first call left it and returns the same count.
C6_Original ==
    ucall.rep => (ucall.ret = ucall.prev_ret /\ orders = ucall.prev_after)

\* C6 amended: a second save_orders of the same batch returns the same
\* count and leaves every stored row as the first call left it except for
\* sync_time, which is the time of the second call for the rows written.
C6_IdempotentButSyncTime ==
    ucall.rep =>
        /\ ucall.ret = ucall.prev_ret
        /\ WithoutSync(orders) = WithoutSync(ucall.prev_after)
        /\ \A id \in DOMAIN orders :
              orders[id].sync_time # ucall.prev_after[id].sync_time
                  => /\ Occurrences(ucall.batch, id) # {}
                     /\ orders[id].sync_time = FromTimestamp(ucall.at)

\* C6 witness: the same batch saved twice in a row, the clock having moved
C6_Witness ==
    /\ ucall.rep
    /\ ucall.ret = 2
    /\ ucall.at = T0 + 1
    /\ orders # ucall.prev_after

\* C7 as stated: when save_orders writes an order whose id is already
\* stored, the stored row is the row derived from the new raw order in
\* every column.
C7_Original ==
    UCallWrote =>
        \A id \in OrderIds :
            (id \in ucall.had /\ Occurrences(ucall.batch, id) # {}) =>
                orders[id] = RowOf(LastOccurrence(ucall.batch, id),
                                   ucall.at, cfg.app_secret)

-----------------------------------------------------------------------------
(* Properties of get_token (checked under SpecToken)                       *)

\* the cache held a token that was still outside the 5 minute margin when
\* the call was entered
CachedUsable ==
    /\ Truthy(tcall.before_token)
    /\ tcall.before_expire # NoDate
    /\ tcall.at < Timestamp(tcall.before_expire) - 5 * 60

\* C8: get_token exchanges exactly when no token is cached or
\* now >= expiresAt - 5 min; otherwise it returns the cached token and
\* leaves the cache alone.  A successful exchange caches the new token
\* with its expiry.  Token cached at T0 with expires_in = 7200: a call at
\* T0 + 100 returns it, a call at T0 + 7000 exchanges.
C8_ExchangeExactlyWhenStale ==
    tcall.called =>
        /\ tcall.exchanges = (IF CachedUsable THEN 0 ELSE 1)
        /\ CachedUsable =>
              /\ ~tcall.raised
              /\ tcall.ret = tcall.before_token
              /\ access_token = tcall.before_token
              /\ token_expire_time = tcall.before_expire
        /\ (~CachedUsable /\ ~tcall.raised) =>
              /\ tcall.ret = tcall.resp.access_token
              /\ access_token = tcall.resp.access_token
              /\ Timestamp(token_expire_time) =
                    tcall.done + (IF tcall.resp.expires_in = NoInt
                                  THEN 7200 ELSE tcall.resp.expires_in)
        /\ (Truthy(tcall.before_token)
                /\ Timestamp(tcall.before_expire) = T0 + 7200) =>
              /\ tcall.at = T0 + 100 =>
                    (tcall.exchanges = 0 /\ tcall.ret = tcall.before_token)
              /\ tcall.at = T0 + 7000 => tcall.exchanges = 1

\* C8 witness: the token cached at T0 for 7200 s is replaced by a call at
\* T0 + 7000
C8_Witness ==
    /\ tcall.called /\ ~tcall.raised
    /\ tcall.before_token = "tokA"
    /\ Timestamp(tcall.before_expire) = T0 + 7200
    /\ tcall.at = T0 + 7000
    /\ tcall.exchanges = 1
    /\ access_token = "tokB"
    /\ Timestamp(token_expire_time) = T0 + 7000 + 600

\* C9: when the endpoint answers with a non-zero code, or without
\* data.access_token, get_token raises after its single POST and the
\* cached token and expiry are what they were before the call.
C9_FailedExchangeKeepsCache ==
    (tcall.called /\ tcall.exchanges >= 1 /\ tcall.resp.http_ok
        /\ (tcall.resp.code # 0 \/ ~tcall.resp.has_data
                \/ ~tcall.resp.has_token)) =>
        /\ tcall.raised
        /\ tcall.exchanges = 1
        /\ access_token = tcall.before_token
        /\ token_expire_time = tcall.before_expire

\* C9 witness: an exchange answered with an error code while a stale token
\* was cached
C9_Witness ==
    /\ tcall.called /\ tcall.raised
    /\ tcall.resp.http_ok /\ tcall.resp.code # 0
    /\ tcall.before_token = "tokB"
    /\ access_token = "tokB"
    /\ token_expire_time = tcall.before_expire

-----------------------------------------------------------------------------
(* Properties of fetch_all_orders_by_day (checked under SpecStream and     *)
(* SpecPaging)                                                             *)

\* C11: when fetch_orders raises on a page of a day, no further page of
\* that day is fetched and the failed call adds nothing to the day's
\* orders; the generator then yields the orders of the day's earlier pages
\* if there are any and goes on to the next day.  It does not raise.
C11_FetchErrorTruncatesDay ==
    /\ [](stream.failed =>
            (pc = "gen_yield" /\ day_orders = stream.fetched))
    /\ [][ (stream.failed /\ pc' # pc) =>
              /\ pc' = "gen_day"
              /\ stream'.fetches = 0
              /\ current_day' = PlusDays(current_day, 1)
              /\ orders_list' = IF stream.fetched # << >>
                                THEN Append(orders_list, stream.fetched)
                                ELSE orders_list ]_vars

\* C11 witness: the third page of the first day failed after two pages
\* that brought orders
C11_Witness ==
    /\ pc = "gen_yield" /\ stream.failed
    /\ stream.fetches = 3
    /\ day_orders = << O2, O1a, O1a >>
    /\ orders_list = << >>

-----------------------------------------------------------------------------
(* Properties of run_once and run (checked under Spec)                     *)

\* C12 as stated: whenever run_once handles an exception, the task status
\* is ERROR with the exception's message when run_once gives control back,
\* and run_once raises.  (exc is the exception handled, str(e) of line 161.)
C12_Original ==
    [][ (pc = "ro_except" /\ pc' # pc) =>
            /\ cycle'.raised
            /\ task'.exists
            /\ task'.status = "ERROR"
            /\ task'.error_message = exc ]_vars

\* C13 as stated: after run_once raised, run waits the failure backoff and
\* goes back to the loop test and the poll; unless a shutdown was
\* signalled, it does not leave the loop.
C13_Original ==
    (cycle.raised /\ running) =>
        /\ pc \in {"wait", "loop"}
        /\ pc = "wait" => wait_kind = "backoff"

\* C14 as stated: run leaves its loop only after the shutdown flag was
\* set (self._running = False); a failing poll, heartbeat or status write
\* does not make it leave.
C14_Original ==
    pc \in {"finally", "exited"} => ~running

\* C15 (SpecStream): when a fetch_orders call returns the cursor it was
\* called with, no further page of that day is fetched: the generator is
\* at the yield point, and its next step opens the next day.
C15_StallStopsPaging ==
    /\ [](stream.same_cursor => pc = "gen_yield")
    /\ [][ (stream.same_cursor /\ pc' # pc) =>
              /\ pc' = "gen_day"
              /\ stream'.fetches = 0
              /\ current_day' = PlusDays(current_day, 1) ]_vars

\* C15 witness: the second page of a day, fetched with cursor "7,8",
\* reported CursorValue ["7", "8"] again
C15_Witness ==
    /\ pc = "gen_yield"
    /\ stream.same_cursor /\ stream.more
    /\ stream.fetches = 2
    /\ cursor = << "7", ",", "8" >>

\* C16 (SpecPaging): the generator makes at most 200 fetch_orders calls
\* for a day slice, whatever cursors the upstream returns: the count of
\* the calls made for the slice never passes 200, and once it is 200 the
\* next step of the generator for that slice is the yield point.
C16_PageCap ==
    /\ [](stream.fetches <= 200)
    /\ [][ (stream.fetches = 200 /\ pc = "gen_page" /\ pc' # pc) =>
              (pc' = "gen_yield" /\ stream' = stream) ]_vars

\* C16 witness: 200 pages were fetched for a day, the last one still
\* reporting a new cursor
C16_Witness ==
    /\ stream.fetches = 200
    /\ stream.more /\ ~stream.same_cursor
    /\ pc = "gen_yield"

\* C17 (SpecPaging): every batch the generator has yielded holds at least
\* one order.
C17_NoEmptyBatch ==
    \A i \in 1..Len(orders_list) : orders_list[i] # << >>

\* C17 witness: the generator has finished a window of two day slices,
\* one of which ended without orders, and has yielded one batch
C17_Witness ==
    /\ pc = "ro_listed"
    /\ window.start_time = FromTimestamp(T0 - 90000)
    /\ Len(orders_list) = 1
    /\ running

\* the day slices [start + i days, min(start + (i + 1) days, end)] of
\* positive length of a window: its length in days, rounded up, and none
\* when the window ends before it starts (the loop of line 232 is not
\* entered)
DaySlices(w) ==
    IF DtLess(w.end_time, w.start_time) THEN 0
    ELSE (Timestamp(w.end_time) - Timestamp(w.start_time) + DaySeconds - 1)
            \div DaySeconds

\* the window 2024-01-01 00:00:00 to 2024-01-02 00:00:00
OneDayWindow ==
    [ start_time |-> FromTimestamp(T0),
      end_time   |-> FromTimestamp(T0 + DaySeconds) ]

\* C18 as stated (SpecStream): the generator yields at most one batch per
\* day of the window; a batch it yields is the concatenation, in page
\* order, of the orders of the pages fetched for that day; and for the
\* window of exactly one day whose first batch holds three orders of two
\* pages, that batch is the only one.
C18_Original ==
    /\ [](Len(orders_list) <= DaySlices(window))
    /\ [][ orders_list' # orders_list =>
              orders_list' = Append(orders_list, stream.fetched) ]_vars
    /\ []( ( /\ window = OneDayWindow
             /\ pc = "ro_listed"
             /\ running
             /\ orders_list # << >> )
           => orders_list = << orders_list[1] >> )

-----------------------------------------------------------------------------
(* Properties of fetch_orders (checked under SpecFetch)                    *)

\* the pieces of l with a comma between each two
CommaJoined(l) ==
    [i \in 1..(2 * Len(l) - 1) |->
        IF i % 2 = 1 THEN l[(i + 1) \div 2] ELSE ","]

\* C19: a fetch_orders call that returns reports has_more = True exactly
\* when the response carries a non-empty data.search_after.CursorValue,
\* whatever orders the page holds; next_cursor is then the comma-join of
\* that list, and otherwise the cursor that was passed in.
C19_HasMoreFromCursorValue ==
    (fcall.called /\ ~fcall.raised) =>
        LET carries == fcall.resp.has_data
                           /\ fcall.resp.cursor_value # << >>
        IN  /\ fcall.result.has_more = carries
            /\ fcall.result.next_cursor =
                   IF carries THEN CommaJoined(fcall.resp.cursor_value)
                   ELSE fcall.cursor

\* C19 witness: a page without orders that carries CursorValue ["7", "8"],
\* fetched with cursor "9"
C19_Witness ==
    /\ fcall.called /\ ~fcall.raised
    /\ fcall.cursor = << "9" >>
    /\ fcall.resp.orders = << >>
    /\ fcall.resp.cursor_value = << "7", "8" >>
    /\ fcall.result.has_more
    /\ fcall.result.next_cursor = << "7", ",", "8" >>

-----------------------------------------------------------------------------
(* Properties of the task row (checked under Spec)                         *)

\* C20: no step of the process changes the command a poll would read
\* (target_command of the task's row); only the operator's write does.
C20_CommandSticky ==
    [][ ~Operator => GetControlCommand(task') = GetControlCommand(task) ]_vars

\* C20 witness: STOP was read, STOPPED was written twice (by the loop and
\* by stop()) and the process has exited; the command is still STOP
C20_Witness ==
    /\ pc = "exited"
    /\ task.exists
    /\ task.target_command = "STOP"
    /\ task.status = "STOPPED"
    /\ task.last_sync_time # NoDate

-----------------------------------------------------------------------------
(* Claims on the task row, checked under SpecTask                          *)

\* the last direct call was a set_task_status that went through on a row
\* that existed
SetOnExisting ==
    /\ scall.called
    /\ scall.op = "set_task_status"
    /\ scall.ok
    /\ scall.before.exists

\* C21: set_task_status on an existing row writes status and updated_at;
\* last_sync_time and error_message keep their values when the argument is
\* not given and take a given (non-empty) one; last_heartbeat,
\* target_command and created_at are not touched.
C21_SetStatusFrame ==
    [][ (SetStatusCall /\ scall'.ok /\ task.exists) =>
          /\ task'.exists
          /\ task'.status = scall'.status
          /\ task'.updated_at = now
          /\ task'.last_heartbeat = task.last_heartbeat
          /\ task'.target_command = task.target_command
          /\ task'.created_at = task.created_at
          /\ scall'.last_sync_time = NoDate =>
                 task'.last_sync_time = task.last_sync_time
          /\ scall'.last_sync_time # NoDate =>
                 task'.last_sync_time = scall'.last_sync_time
          /\ scall'.error_message = None =>
                 task'.error_message = task.error_message
          /\ scall'.error_message = "boom" => task'.error_message = "boom"
      ]_vars
\* a STOPPED written later than the heartbeat with nothing else given, over a
\* row that holds a sync time, a message and a command
C21_Witness ==
    /\ SetOnExisting
    /\ scall.status = "STOPPED"
    /\ scall.last_sync_time = NoDate
    /\ scall.error_message = None
    /\ scall.before.status = "ERROR"
    /\ scall.before.error_message = "boom"
    /\ scall.before.last_sync_time # NoDate
    /\ scall.before.target_command = "STOP"
    /\ scall.before.last_heartbeat < scall.at
    /\ task.status = "STOPPED"
    /\ task.error_message = "boom"

\* C22: there is no row until the first set_task_status: a command read
\* without a row returns None and a heartbeat without a row writes nothing,
\* neither creates the row; only set_task_status creates it, and nothing
\* deletes it.
C22_RowLifecycle ==
    /\ [](( scall.called /\ ~scall.before.exists
            /\ scall.op \in {"get_control_command", "update_heartbeat"} )
          => ( task = NoRow
               /\ ((scall.op = "get_control_command" /\ scall.ok)
                      => scall.ret = None) ))
    /\ [][ task.exists => task'.exists ]_vars
    /\ [][ (~task.exists /\ task'.exists)
           => (scall'.op = "set_task_status" /\ scall'.ok) ]_vars
\* a heartbeat went through before any row was written
C22_Witness ==
    /\ scall.called
    /\ scall.op = "update_heartbeat"
    /\ scall.ok
    /\ ~scall.before.exists
    /\ task = NoRow

-----------------------------------------------------------------------------
(* Claims on the status the process writes, checked under Spec             *)

\* the persisted status, None while there is no row
StatusOf(row) == IF row.exists THEN row.status ELSE None

\* C23 as stated: a change of the status of the existing row is RUNNING to
\* ERROR in the handler of a failed cycle, ERROR to RUNNING at the end of a
\* successful cycle, RUNNING to STOPPED when the poll read STOP, STOPPED to
\* RUNNING in the first cycle after a poll that read no STOP, or a change
\* to STOPPED when the loop is left.
C23_Original ==
    [][ (task.exists /\ StatusOf(task') # StatusOf(task)) =>
          \/ /\ pc = "ro_except"
             /\ StatusOf(task) = "RUNNING" /\ StatusOf(task') = "ERROR"
          \/ /\ pc = "ro_sync"
             /\ StatusOf(task) = "ERROR" /\ StatusOf(task') = "RUNNING"
          \/ /\ pc = "set_stopped" /\ polled = "STOP"
             /\ StatusOf(task) = "RUNNING" /\ StatusOf(task') = "STOPPED"
          \/ /\ pc = "ro_begin" /\ polled # "STOP"
             /\ StatusOf(task) = "STOPPED" /\ StatusOf(task') = "RUNNING"
          \/ /\ pc = "finally"
             /\ StatusOf(task') = "STOPPED"
      ]_vars

\* C23 (amended): every change of the persisted status, the creation of the
\* row included, is a write of RUNNING at the start of a cycle (whatever the
\* status was), a write of ERROR in the handler of a failed cycle, a write
\* of STOPPED after a poll that read STOP, or the write of STOPPED when the
\* loop is left; a successful end of cycle rewrites RUNNING over RUNNING.
C23_StatusChanges ==
    /\ [][ StatusOf(task') # StatusOf(task) =>
             \/ /\ pc = "ro_begin" /\ polled # "STOP"
                /\ StatusOf(task') = "RUNNING"
             \/ /\ pc = "ro_except"
                /\ StatusOf(task') = "ERROR"
             \/ /\ pc = "set_stopped" /\ polled = "STOP"
                /\ StatusOf(task) \in {"RUNNING", "ERROR"}
                /\ StatusOf(task') = "STOPPED"
             \/ /\ pc = "finally"
                /\ StatusOf(task') = "STOPPED"
         ]_vars
    /\ [][ (pc = "ro_sync" /\ task' # task) =>
             (StatusOf(task) = "RUNNING" /\ StatusOf(task') = "RUNNING")
         ]_vars
\* the status is RUNNING again at the start of the cycle that follows a
\* failed one, before anything of that cycle has succeeded
C23_Witness ==
    /\ pc = "ro_window"
    /\ StatusOf(task) = "RUNNING"
    /\ task.error_message = SaveError

-----------------------------------------------------------------------------
(* Claims on shutdown, checked under SpecSignal                            *)

\* C24 as stated, the condition on which the loop exits: once a shutdown
\* signal has been handled, the flag tested by 'while self._running' and by
\* smart_wait is cleared for as long as run has not returned.
C24_Original ==
    (signalled /\ pc \notin {"created", "exited"}) => ~running

-----------------------------------------------------------------------------
(* Claims on nested batches and on decryption, checked under SpecUpsert    *)

\* a batch of batches: every item of orders_data is a list
AllLists(b) == b # << >> /\ \A i \in 1..Len(b) : IsList(b[i])

\* C25: save_orders of a batch of batches leaves the table, and returns or
\* raises, as save_orders of the concatenation of the inner batches does
\* from the same table at the same time (a step that turns ucall.flip is a
\* call of save_orders).
C25_NestedAsFlat ==
    [][ (ucall'.flip # ucall.flip /\ AllLists(ucall'.batch)) =>
          \E db_ok \in BOOLEAN :
             LET flat == Flatten([i \in 1..Len(ucall'.batch) |->
                                     ucall'.batch[i].items])
                 f    == SaveOrders(flat, orders, now, cfg.app_secret, db_ok)
             IN  /\ orders' = f.table
                 /\ ucall'.raised = f.raised
                 /\ ucall'.ret = f.ret
      ]_vars
\* two inner batches holding three raw orders of two ids were written
C25_Witness ==
    /\ UCallWrote
    /\ ucall.batch = << ListEntry(<< O1a >>), ListEntry(<< O1b, O2 >>) >>
    /\ ucall.ret = 2
    /\ DOMAIN orders = {"1", "2"}
    /\ orders["1"].raw_data = O1b

\* the encrypted phone of a raw order, and whether save_orders calls
\* _decrypt_phone on it and the call raises
CipherOf(o) ==
    IF o.contacts # << >> THEN o.contacts[1].phone_encrypt ELSE None
DecryptFails(o) ==
    /\ Truthy(CipherOf(o))
    /\ Truthy(cfg.app_secret)
    /\ DecryptRaises(CipherOf(o), cfg.app_secret)

\* the padding of the bytes decrypted for the phone of a raw order is
\* malformed: the last byte is no number of bytes that can be dropped
PaddingMalformed(o) ==
    /\ Truthy(CipherOf(o))
    /\ Truthy(cfg.app_secret)
    /\ ~B64Raises(CipherOf(o))
    /\ LET plain == AesPlain(CipherOf(o),
                             NormalizeSecret(Codes(cfg.app_secret)))
       IN  plain # << >> /\ plain[Len(plain)] \notin 1..Len(plain)

\* C26 as stated: a record whose phone could not be decrypted (malformed
\* base64 or padding, or a result that is no text) is stored with phone
\* None; a stored phone is not None only if the decryption succeeded.
C26_Original ==
    UCallWrote =>
       \A id \in OrderIds :
          Occurrences(ucall.batch, id) # {} =>
             LET o == LastOccurrence(ucall.batch, id)
             IN  (DecryptFails(o) \/ PaddingMalformed(o)) =>
                    orders[id].phone = None

\* (C26, the part that holds) a decryption that raises does not make
\* save_orders raise; the row of that order is written with phone None and
\* every other column as usual, the rows of the other orders are written as
\* usual; a stored phone is not None only if _decrypt_phone returned for
\* the raw order last written for that id.
DecryptFailureLocal ==
    /\ (ucall.called /\ ucall.raised) => ucall.write_failed
    /\ UCallWrote =>
         \A id \in OrderIds :
            Occurrences(ucall.batch, id) # {} =>
               LET o == LastOccurrence(ucall.batch, id)
                   usual == RowOf(o, ucall.at, cfg.app_secret)
               IN  /\ id \in DOMAIN orders
                   /\ orders[id].phone =
                         IF ~Truthy(CipherOf(o)) \/ DecryptFails(o) THEN None
                         ELSE DecryptPhone(CipherOf(o), cfg.app_secret)
                   /\ WithoutCreate([orders[id] EXCEPT !.phone = None])
                      = WithoutCreate([usual EXCEPT !.phone = None])
    /\ \A id \in DOMAIN orders :
          orders[id].phone # None =>
             /\ Truthy(CipherOf(orders[id].raw_data))
             /\ ~DecryptFails(orders[id].raw_data)
\* order 1 with an undecryptable phone written over an earlier row of
\* order 1, together with order 2
DecryptFailureSeen ==
    /\ UCallWrote
    /\ ucall.batch = << O1b, O2 >>
    /\ "1" \in ucall.had
    /\ ucall.ret = 2
    /\ DecryptFails(O1b)
    /\ orders["1"].phone = None
    /\ orders["1"].order_status = "DONE"
    /\ orders["2"].raw_data = O2
\* the zero block was written: its padding is malformed, _decrypt_phone
\* returned the empty string and that is the phone stored
EmptyPhoneSeen ==
    /\ UCallWrote
    /\ ucall.batch = << O2z >>
    /\ PaddingMalformed(O2z)
    /\ orders["2"].phone = ""

-----------------------------------------------------------------------------
(* Claims on _normalize_secret, checked under SpecSecret                   *)

\* C27: _normalize_secret returns a string of exactly 32 characters for
\* every non-empty argument, whatever its length and its surrounding
\* whitespace.
C27_ResultLength ==
    (ncall.called /\ ncall.secret # << >>) => Len(ncall.result) = SecretLen
\* a secret of more than 32 characters between whitespace was normalised
C27_Witness ==
    /\ ncall.called
    /\ Len(ncall.secret) > SecretLen + 2
    /\ ncall.secret[1] \in Whitespace
    /\ ncall.secret[Len(ncall.secret)] \in Whitespace
    /\ Len(ncall.result) = SecretLen

\* the argument without its leading and trailing whitespace
Stripped(s) ==
    LET keep == { i \in 1..Len(s) : s[i] \notin Whitespace }
    IN  IF keep = {} THEN << >>
        ELSE SubSeq(s, CHOOSE i \in keep : \A j \in keep : i <= j,
                       CHOOSE i \in keep : \A j \in keep : j <= i)
Pads(k) == [i \in 1..k |-> PadChar]

\* C28: with s the stripped argument and n its length, the result is s when
\* n = 32; ceil((32 - n) / 2) pad characters, s, floor((32 - n) / 2) pad
\* characters when n < 32; s without its first ceil((n - 32) / 2) and its
\* last floor((n - 32) / 2) characters when n > 32.
C28_LeftFirst ==
    ncall.called =>
        LET s == Stripped(ncall.secret)
            n == Len(s)
        IN  ncall.result =
              IF n < SecretLen
              THEN Pads((SecretLen - n + 1) \div 2) \o s
                   \o Pads((SecretLen - n) \div 2)
              ELSE IF n > SecretLen
              THEN SubSeq(s, (n - SecretLen + 1) \div 2 + 1,
                             n - (n - SecretLen) \div 2)
              ELSE s
\* three characters too many: two are dropped on the left, one on the right
C28_Witness ==
    /\ ncall.called
    /\ Len(Stripped(ncall.secret)) = SecretLen + 3
    /\ ncall.result[1] = Stripped(ncall.secret)[3]
    /\ ncall.result[SecretLen] = Stripped(ncall.secret)[SecretLen + 2]

-----------------------------------------------------------------------------
(* Claims on the configured window, checked under SpecWindow               *)

\* a start or end date is configured that cannot be parsed
MalformedDates(c) == c.start_time = BadDate \/ c.end_time = BadDate

\* C29 as stated: with a malformed explicit date the process ends before
\* the main loop starts: no cycle is run and no cycle writes a status (the
\* STOPPED that stop() writes at the end of run is not counted).
C29_Original ==
    MalformedDates(cfg) =>
        /\ pc # "ro_window"
        /\ StatusOf(task) \notin {"RUNNING", "ERROR"}

\* C30: when run_once resolves its window, the window is exactly the
\* configured [start, end] if both are configured, and the sync_days days
\* that end at the current time otherwise.
C30_WindowPrecedence ==
    [][ (pc = "ro_window" /\ pc' = "gen_day") =>
          IF cfg.start_time # NoInt /\ cfg.end_time # NoInt
          THEN window' = [ start_time |-> FromTimestamp(cfg.start_time),
                           end_time   |-> FromTimestamp(cfg.end_time) ]
          ELSE window' =
                 [ start_time |->
                       FromTimestamp(now - cfg.sync_days * DaySeconds),
                   end_time   |-> FromTimestamp(now) ]
      ]_vars
\* the explicit window was taken at a time at which the relative one ends
\* later
C30_Witness ==
    /\ pc = "gen_day"
    /\ cfg.start_time = T0 - 90000
    /\ cfg.end_time = T0
    /\ now > T0
    /\ window = [ start_time |-> FromTimestamp(T0 - 90000),
                  end_time   |-> FromTimestamp(T0) ]

-----------------------------------------------------------------------------
(* Claims on the waits of the loop, checked under SpecWait                 *)

\* the number of ticks smart_wait is called with
Nominal(kind) ==
    CASE kind = "backoff"  -> BackoffSeconds
      [] kind = "interval" -> cfg.sync_interval
      [] kind = "stopped"  -> StoppedSeconds
      [] OTHER             -> 0

\* C31 as stated: the wait after a failed cycle is longer than the
\* configured interval waited after a successful one.
C31_Original ==
    (pc = "wait" /\ wait_kind = "backoff") => BackoffSeconds > cfg.sync_interval

\* C31 (amended): run waits BackoffSeconds seconds after a failed cycle,
\* whatever the configured interval, and the configured interval after a
\* cycle that returned; a wait starts with its nominal length left, every
\* tick takes one second of it and one second of the clock, and it never
\* has more left than its nominal length: it never exceeds that length.
C31_WaitLengths ==
    /\ [](pc = "wait" => (wait_left >= 0 /\ wait_left <= Nominal(wait_kind)))
    /\ [][ (pc = "ro_except" /\ pc' # pc) =>
             (pc' = "wait" /\ wait_kind' = "backoff"
              /\ wait_left' = BackoffSeconds) ]_vars
    /\ [][ (pc = "ro_listed" /\ pc' = "wait") =>
             (wait_kind' = "interval" /\ wait_left' = cfg.sync_interval) ]_vars
    /\ [][ (pc = "wait" /\ pc' = "wait" /\ wait_left' # wait_left) =>
             (wait_left' = wait_left - 1 /\ now' = now + 1) ]_vars
\* a failed cycle was followed by a backoff shorter than the interval
\* configured, and both that backoff and the interval wait of the next
\* cycle have run their whole length
C31_Witness ==
    /\ pc = "wait"
    /\ wait_kind = "interval"
    /\ wait_left = 0
    /\ cfg.sync_interval > BackoffSeconds
    /\ now = T0 + BackoffSeconds + cfg.sync_interval

-----------------------------------------------------------------------------
(* Claims on the iterations of run's loop, checked under Spec              *)

\* C32 as stated: while the command is STOP and no signal has come, the
\* wait that follows the write of STOPPED lets at least one tick pass
\* before run goes back to the top of its loop.
C32_Original ==
    [][ ( pc = "wait" /\ wait_kind = "stopped" /\ pc' = "loop" /\ running
          /\ GetControlCommand(task) = "STOP" )
        => wait_left < StoppedSeconds ]_vars

\* C33 as stated: an iteration of run's loop that has polled goes on to
\* report a heartbeat, also when the command read is STOP (unless the poll
\* itself failed).
C33_Original ==
    [][ (pc = "poll" /\ pc' # "poll") => pc' \in {"heartbeat", "finally"} ]_vars

-----------------------------------------------------------------------------
(* Claims on the generator, checked under SpecStream                       *)

\* the generator is running
InGenerator == pc \in {"gen_day", "gen_page", "gen_yield"}

\* C34: once the flag is cleared while the generator runs, no fetch_orders
\* call is started, the page loop goes to the end of the day at its next
\* test and the day loop returns at its next test without beginning a day.
C34_CancelStopsPaging ==
    /\ [][ (InGenerator /\ ~running) =>
             /\ ~running'
             /\ page_count' # page_count + 1
             /\ stream'.fetches <= stream.fetches ]_vars
    /\ [][ (pc = "gen_page" /\ ~running /\ pc' # pc) => pc' = "gen_yield" ]_vars
    /\ [][ (pc = "gen_day" /\ ~running /\ pc' # pc) => pc' = "ro_listed" ]_vars
\* the paging of a day was left although the last page announced more
C34_Witness ==
    /\ pc = "gen_yield"
    /\ ~running
    /\ stream.fetches >= 1
    /\ stream.more
    /\ ~stream.same_cursor
    /\ DtLess(PlusDays(current_day, 1), window.end_time)

\* C35 as stated: every day slice the generator queries has positive
\* length: its start, current_day, lies strictly before its end, the
\* earlier of current_day + 1 day and the end of the window.
C35_Original ==
    (pc = "gen_page" /\ running) =>
        DtLess(current_day, DtMin(PlusDays(current_day, 1), window.end_time))

\* C36: the first fetch_orders call of a day slice is made with cursor "0",
\* every later call of that slice with the next_cursor the call before it
\* returned; the cursor is set to "0" whenever a day is begun.
C36_CursorProtocol ==
    /\ [](stream.fetches = 1 => stream.cursor = << "0" >>)
    /\ [][ (stream.fetches >= 1 /\ stream'.fetches = stream.fetches + 1) =>
             stream'.cursor = stream.next_cursor ]_vars
    /\ [][ (pc = "gen_day" /\ pc' = "gen_page") =>
             (cursor' = << "0" >> /\ stream.fetches = 0) ]_vars
\* the second day's first call was made with "0" after a first day whose
\* paging had moved on to another cursor, and a later call of a day was made
\* with a cursor other than "0"
C36_Witness ==
    /\ stream.fetches = 2
    /\ stream.cursor = << "7", ",", "8" >>
    /\ orders_list # << >>
    /\ current_day # window.start_time

-----------------------------------------------------------------------------
(* Claims on commands and the task row during cycles, checked under Spec   *)

\* C37: a STOP written while run_once runs does not stop the paging (a turn
\* of the page loop fetches whenever the flag is set and the cap is not
\* reached, whatever the command); with STOP stored, the wait after the
\* cycle ends at its next tick without sleeping, and the poll at the top of
\* the loop goes to the write of STOPPED, not to a cycle (a failing
\* database call ends run instead).
C37_StopAfterCycle ==
    /\ [][ ( pc = "gen_page" /\ running /\ page_count < max_pages
             /\ (pc' # pc \/ page_count' # page_count) )
           => page_count' = page_count + 1 ]_vars
    /\ [][ ( pc = "wait" /\ running /\ GetControlCommand(task) = "STOP"
             /\ (pc' # pc \/ wait_left' # wait_left) )
           => pc' \in {"loop", "finally"} ]_vars
    /\ [][ ( pc = "poll" /\ GetControlCommand(task) = "STOP" /\ pc' # pc )
           => pc' \in {"set_stopped", "finally"} ]_vars
\* orders fetched and saved in a cycle whose poll had read no STOP, with
\* STOP stored by now
C37_Witness ==
    /\ pc = "ro_sync"
    /\ running
    /\ polled # "STOP"
    /\ GetControlCommand(task) = "STOP"
    /\ orders_list # << >>

\* the stored error_message, None while there is no row
MessageOf(row) == IF row.exists THEN row.error_message ELSE None

LastSyncOf(row) == IF row.exists THEN row.last_sync_time ELSE NoDate

\* C39: last_sync_time changes only in the last write of a cycle that
\* fetched at least one batch and saved it, and becomes the end of that
\* cycle's window; that write always stores the end of the window.
C39_SyncTimeOnSuccess ==
    /\ [][ LastSyncOf(task') # LastSyncOf(task) =>
             /\ pc = "ro_sync"
             /\ orders_list # << >>
             /\ ~cycle'.raised
             /\ LastSyncOf(task') = window.end_time ]_vars
    /\ [][ (pc = "ro_sync" /\ pc' = "wait" /\ ~cycle'.raised) =>
             LastSyncOf(task') = window.end_time ]_vars
\* a cycle that failed after an earlier one had recorded its window end
C39_Witness ==
    /\ pc = "wait"
    /\ wait_kind = "backoff"
    /\ cycle.raised
    /\ LastSyncOf(task) = FromTimestamp(T0)
    /\ StatusOf(task) = "ERROR"

-----------------------------------------------------------------------------
(* C40: a shutdown signal delivered at any moment after the handlers are   *)
(* installed is never lost: once one has been delivered, the test of the   *)
(* main loop never starts another iteration                                *)
C40_Original ==
    [][ (signalled /\ pc = "loop") => pc' # "poll" ]_vars

=============================================================================
